---- MODULE Spec2Model ----
EXTENDS Integers, Sequences, FiniteSets, TLC

(***************************************************************************)
(* Model of the vscode-perforce command/response protocol layer.           *)
(*                                                                         *)
(* Strings are sequences of characters.  A character is either one of the  *)
(* delimiters the code splits, joins or escapes on ("&", "=", "%", "#",    *)
(* "?", "/", "\\", "@", ":", " "), a single hexadecimal digit, or an       *)
(* opaque run of unreserved characters (such as "command" or "print")      *)
(* that no operation of the code ever splits.                              *)
(***************************************************************************)

VARIABLES
    qArgs,      \* query codec: the mapping handed to encodeQuery
    qEncoded,   \* query codec: the query string produced / to be decoded
    qDecoded,   \* query codec: the mapping decodeUriQuery returned
    qStep       \* query codec: "args" | "encoded" | "decoded"

VARIABLES
    platform,   \* addresses: "posix" | "win32", the platform the extension host runs on
    uri,        \* addresses: the address the last operation returned
    uriArg,     \* addresses: the address object handed to the last operation
    uriOp,      \* addresses: the last operation and its other arguments
    uriSteps    \* addresses: number of operations applied so far

VARIABLES
    specText,   \* change spec: the text "p4 change -o" printed
    spec,       \* change spec: the ChangeSpec object the caller holds
    specInput,  \* change spec: the text handed to "p4 change -i"
    specStep    \* change spec: "text" | "parsed" | "written"

VARIABLES
    chOutput,      \* changes: the text "p4 changes -l" printed
    chResult,      \* changes: the ChangeInfo records parseChangesOutput returned
    chStep         \* changes: "output" | "parsed"

VARIABLES
    fsPaths,       \* fstat: options.depotPaths, the depot paths asked for
    fsPending,     \* fstat: the chunks whose fstat command has not completed
    fsOutputs,     \* fstat: chunk -> the text its fstat command printed
    fsServed,      \* fstat: chunk -> the depot paths the server listed, in its order
    fsResult,      \* fstat: what getFstatInfoMapped returned
    fsStep         \* fstat: "running" | "done"

VARIABLES
    fcOp,          \* facade: the operation called
    fcExec,        \* facade: <<>> or <<what the executor called back with>>
    fcOutcome,     \* facade: <<>> or <<how the operation's promise settled>>
    fcStep         \* facade: "called" | "executed" | "settled"

VARIABLES
    paParts,       \* parse: the components the string is written from
    paInput,       \* parse: the string given to parse
    paResult,      \* parse: <<>> or <<the address parse returned>>
    paStep         \* parse: "given" or "parsed"

VARIABLES
    lnKind,        \* lines: the command whose output is parsed
    lnLines,       \* lines: the lines the command printed
    lnOutput,      \* lines: the text handed to the parser
    lnResult,      \* lines: the records the parser returned
    lnStep         \* lines: "output" or "parsed"

VARIABLES
    ztLines,       \* ztag: the fields of the z-tag block the tool printed
    ztOutput,      \* ztag: the text handed to parseFstatOutput
    ztResult,      \* ztag: the records parseFstatOutput returned
    ztStep         \* ztag: "output" or "parsed"

VARIABLES
    amCommand,     \* args: the command whose arguments are made
    amOptions,     \* args: the options object handed to the command
    amFixedFirst,  \* args: whether the constant flags come before the others
    amArgs,        \* args: the argument array handed to the executor
    amStep         \* args: "options" or "mapped"

VARIABLES
    wrPath,        \* rev: the path handed to withoutRev
    wrRev,         \* rev: the revision or label handed to withoutRev
    wrResult,      \* rev: the path withoutRev returned
    wrStep         \* rev: "input" or "returned"

VARIABLES
    pcEditor,      \* commands: window.activeTextEditor: <<>> or <<document>>
    pcOp,          \* commands: the editor command that is running and where it is
    pcLog,         \* commands: the server commands issued and completed, in order
    pcShown,       \* commands: the messages shown to the user, in order
    pcRefreshes,   \* commands: how often RefreshAll was called
    pcRuns         \* commands: how many editor commands were started

VARIABLES
    mvFiles,       \* move: the files selected in the explorer, in order
    mvNewPath,     \* move: the new location entered: <<>> or <<dir>>
    mvPc,          \* move: where the moveOne of each selected file is
    mvCalls,       \* move: the server commands issued for each selected file
    mvOutcomes,    \* move: the outcomes of the completed commands of each selected file
    mvShown,       \* move: the messages and errors shown, in order
    mvRefreshes,   \* move: how often RefreshAll was called
    mvStep         \* move: "selected", "input", "moving" or "done"

VARIABLES
    mdConfig,      \* model: the configuration: hideNonWorkspaceFiles, hideEmptyChangelists
    mdModel,       \* model: the fields of the scm Model
    mdRefresh,     \* model: the RefreshImpl that is running and where it is
    mdRefreshes,   \* model: how many refreshes were started
    mdServer,      \* model: the lists of pending changelists the server can return
    mdHaveCalls,   \* model: the haveFile calls made, in order, and how each was answered
    mdEvent        \* model: the last active file status event: <<>> or <<event>>

VARIABLES
    anByUri,       \* annotate: AnnotationProvider._annotationsByUri, a Map keyed by Uri object
    anProviders,   \* annotate: every AnnotationProvider constructed so far
    anCalls,       \* annotate: the calls of annotate, each awaiting its commands or returned
    anUris         \* annotate: the number of Uri objects made so far

VARIABLES
    qpStack,       \* quickpick: quickPickStack, each instance with the invocation that made it
    qpRecents,     \* quickpick: recents, by recentKey
    qpInv,         \* quickpick: the invocations of showQuickPick and where each one stands
    qpWidget,      \* quickpick: the invocation whose quick pick or input box is visible, or 0
    qpError        \* quickpick: whether "No previous quick pick available" was shown

VARIABLES
    seSuppressNextSave,\* speceditor: SpecEditor._suppressNextSave, a document or nothing
    seHasUnresolvedPrompt,\* speceditor: SpecEditor._hasUnresolvedPrompt
    sePrompt,      \* speceditor: the document whose apply prompt is shown and not yet answered
    seDirty,       \* speceditor: the documents with unsaved changes
    seSaves,       \* speceditor: the saves started so far, each with its will-save event and what the handler did
    seApplies,     \* speceditor: the calls of inputSpec and where each one stands
    seError        \* speceditor: whether an error of inputSpec was shown

queryVars == <<qArgs, qEncoded, qDecoded, qStep>>
uriVars   == <<platform, uri, uriArg, uriOp, uriSteps>>
specVars  == <<specText, spec, specInput, specStep>>
chVars    == <<chOutput, chResult, chStep>>
fsVars    == <<fsPaths, fsPending, fsOutputs, fsServed, fsResult, fsStep>>
fcVars    == <<fcOp, fcExec, fcOutcome, fcStep>>
paVars    == <<paParts, paInput, paResult, paStep>>
lnVars    == <<lnKind, lnLines, lnOutput, lnResult, lnStep>>
ztVars    == <<ztLines, ztOutput, ztResult, ztStep>>
amVars    == <<amCommand, amOptions, amFixedFirst, amArgs, amStep>>
wrVars    == <<wrPath, wrRev, wrResult, wrStep>>
pcVars    == <<pcEditor, pcOp, pcLog, pcShown, pcRefreshes, pcRuns>>
mvVars    == <<mvFiles, mvNewPath, mvPc, mvCalls, mvOutcomes, mvShown, mvRefreshes, mvStep>>
mdVars    == <<mdConfig, mdModel, mdRefresh, mdRefreshes, mdServer, mdHaveCalls, mdEvent>>
anVars    == <<anByUri, anProviders, anCalls, anUris>>
qpVars    == <<qpStack, qpRecents, qpInv, qpWidget, qpError>>
seVars    == <<seSuppressNextSave, seHasUnresolvedPrompt, sePrompt, seDirty, seSaves, seApplies, seError>>

vars == <<queryVars, uriVars, specVars, chVars, fsVars, fcVars, paVars, lnVars, ztVars, amVars, wrVars, pcVars, mvVars, mdVars, anVars, qpVars, seVars>>

\* the variables each part of the model leaves alone
notQueryVars == <<uriVars, specVars, chVars, fsVars, fcVars, paVars, lnVars, ztVars, amVars, wrVars, pcVars, mvVars, mdVars, anVars, qpVars, seVars>>
notUriVars   == <<queryVars, specVars, chVars, fsVars, fcVars, paVars, lnVars, ztVars, amVars, wrVars, pcVars, mvVars, mdVars, anVars, qpVars, seVars>>
notSpecVars  == <<queryVars, uriVars, chVars, fsVars, fcVars, paVars, lnVars, ztVars, amVars, wrVars, pcVars, mvVars, mdVars, anVars, qpVars, seVars>>
notChVars    == <<queryVars, uriVars, specVars, fsVars, fcVars, paVars, lnVars, ztVars, amVars, wrVars, pcVars, mvVars, mdVars, anVars, qpVars, seVars>>
notFsVars    == <<queryVars, uriVars, specVars, chVars, fcVars, paVars, lnVars, ztVars, amVars, wrVars, pcVars, mvVars, mdVars, anVars, qpVars, seVars>>
notFcVars    == <<queryVars, uriVars, specVars, chVars, fsVars, paVars, lnVars, ztVars, amVars, wrVars, pcVars, mvVars, mdVars, anVars, qpVars, seVars>>
notPaVars    == <<queryVars, uriVars, specVars, chVars, fsVars, fcVars, lnVars, ztVars, amVars, wrVars, pcVars, mvVars, mdVars, anVars, qpVars, seVars>>
notLnVars    == <<queryVars, uriVars, specVars, chVars, fsVars, fcVars, paVars, ztVars, amVars, wrVars, pcVars, mvVars, mdVars, anVars, qpVars, seVars>>
notZtVars    == <<queryVars, uriVars, specVars, chVars, fsVars, fcVars, paVars, lnVars, amVars, wrVars, pcVars, mvVars, mdVars, anVars, qpVars, seVars>>
notAmVars    == <<queryVars, uriVars, specVars, chVars, fsVars, fcVars, paVars, lnVars, ztVars, wrVars, pcVars, mvVars, mdVars, anVars, qpVars, seVars>>
notWrVars    == <<queryVars, uriVars, specVars, chVars, fsVars, fcVars, paVars, lnVars, ztVars, amVars, pcVars, mvVars, mdVars, anVars, qpVars, seVars>>
notPcVars    == <<queryVars, uriVars, specVars, chVars, fsVars, fcVars, paVars, lnVars, ztVars, amVars, wrVars, mvVars, mdVars, anVars, qpVars, seVars>>
notMvVars    == <<queryVars, uriVars, specVars, chVars, fsVars, fcVars, paVars, lnVars, ztVars, amVars, wrVars, pcVars, mdVars, anVars, qpVars, seVars>>
notMdVars    == <<queryVars, uriVars, specVars, chVars, fsVars, fcVars, paVars, lnVars, ztVars, amVars, wrVars, pcVars, mvVars, anVars, qpVars, seVars>>
notAnVars    == <<queryVars, uriVars, specVars, chVars, fsVars, fcVars, paVars, lnVars, ztVars, amVars, wrVars, pcVars, mvVars, mdVars, qpVars, seVars>>
notQpVars    == <<queryVars, uriVars, specVars, chVars, fsVars, fcVars, paVars, lnVars, ztVars, amVars, wrVars, pcVars, mvVars, mdVars, anVars, seVars>>
notSeVars    == <<queryVars, uriVars, specVars, chVars, fsVars, fcVars, paVars, lnVars, ztVars, amVars, wrVars, pcVars, mvVars, mdVars, anVars, qpVars>>

\* the value of the variables of a part of the model that is not running
QueryIdle ==
    /\ qArgs = <<>>
    /\ qEncoded = <<>>
    /\ qDecoded = <<>>
    /\ qStep = "idle"

UriIdle ==
    /\ platform = "posix"
    /\ uri = <<>>
    /\ uriArg = <<>>
    /\ uriOp = <<>>
    /\ uriSteps = 0

SpecIdle ==
    /\ specText = <<>>
    /\ spec = <<>>
    /\ specInput = <<>>
    /\ specStep = "idle"

ChIdle ==
    /\ chOutput = <<>>
    /\ chResult = <<>>
    /\ chStep = "idle"

FsIdle ==
    /\ fsPaths = <<>>
    /\ fsPending = {}
    /\ fsOutputs = <<>>
    /\ fsServed = <<>>
    /\ fsResult = <<>>
    /\ fsStep = "idle"

FcIdle ==
    /\ fcOp = "none"
    /\ fcExec = <<>>
    /\ fcOutcome = <<>>
    /\ fcStep = "idle"

PaIdle ==
    /\ paParts = <<>>
    /\ paInput = <<>>
    /\ paResult = <<>>
    /\ paStep = "idle"

LnIdle ==
    /\ lnKind = "none"
    /\ lnLines = <<>>
    /\ lnOutput = <<>>
    /\ lnResult = <<>>
    /\ lnStep = "idle"

ZtIdle ==
    /\ ztLines = <<>>
    /\ ztOutput = <<>>
    /\ ztResult = <<>>
    /\ ztStep = "idle"

AmIdle ==
    /\ amCommand = "none"
    /\ amOptions = <<>>
    /\ amFixedFirst = FALSE
    /\ amArgs = <<>>
    /\ amStep = "idle"

WrIdle ==
    /\ wrPath = <<>>
    /\ wrRev = <<>>
    /\ wrResult = <<>>
    /\ wrStep = "idle"

PcIdle ==
    /\ pcEditor = <<>>
    /\ pcOp = [name |-> "none", pc |-> "idle", file |-> "", calls |-> <<>>]
    /\ pcLog = <<>>
    /\ pcShown = <<>>
    /\ pcRefreshes = 0
    /\ pcRuns = 0

MvIdle ==
    /\ mvFiles = <<>>
    /\ mvNewPath = <<>>
    /\ mvPc = <<>>
    /\ mvCalls = <<>>
    /\ mvOutcomes = <<>>
    /\ mvShown = <<>>
    /\ mvRefreshes = 0
    /\ mvStep = "idle"

MdIdle ==
    /\ mdConfig = <<>>
    /\ mdModel = <<>>
    /\ mdRefresh = [pc |-> "idle", changelists |-> <<>>, last |-> <<>>, clears |-> 0]
    /\ mdRefreshes = 0
    /\ mdServer = {}
    /\ mdHaveCalls = <<>>
    /\ mdEvent = <<>>

AnIdle ==
    /\ anByUri = <<>>
    /\ anProviders = <<>>
    /\ anCalls = <<>>
    /\ anUris = 0

QpIdle ==
    /\ qpStack = <<>>
    /\ qpRecents = <<>>
    /\ qpInv = <<>>
    /\ qpWidget = 0
    /\ qpError = FALSE

SeIdle ==
    /\ seSuppressNextSave = <<>>
    /\ seHasUnresolvedPrompt = FALSE
    /\ sePrompt = <<>>
    /\ seDirty = {}
    /\ seSaves = <<>>
    /\ seApplies = <<>>
    /\ seError = FALSE

\* every part of the model but the named one is not running
IdleBut(part) ==
    /\ part = "query" \/ QueryIdle
    /\ part = "uri" \/ UriIdle
    /\ part = "spec" \/ SpecIdle
    /\ part = "changes" \/ ChIdle
    /\ part = "fstat" \/ FsIdle
    /\ part = "facade" \/ FcIdle
    /\ part = "parse" \/ PaIdle
    /\ part = "lines" \/ LnIdle
    /\ part = "ztag" \/ ZtIdle
    /\ part = "args" \/ AmIdle
    /\ part = "rev" \/ WrIdle
    /\ part = "commands" \/ PcIdle
    /\ part = "move" \/ MvIdle
    /\ part = "model" \/ MdIdle
    /\ part = "annotate" \/ AnIdle
    /\ part = "quickpick" \/ QpIdle
    /\ part = "speceditor" \/ SeIdle

----------------------------------------------------------------------------
(* String helpers (String.prototype.indexOf / split, Array.prototype.join) *)

\* JS indexOf: 0-based index of the first occurrence of c, or -1
IndexOf(s, c) ==
    IF \E i \in 1..Len(s) : s[i] = c
    THEN (CHOOSE i \in 1..Len(s) : s[i] = c /\ \A j \in 1..(i - 1) : s[j] # c) - 1
    ELSE -1

\* JS slice(from) / slice(from, to) with 0-based, non-negative indices
SliceFrom(s, from) == SubSeq(s, from + 1, Len(s))
Slice(s, from, to) == SubSeq(s, from + 1, to)

RECURSIVE Split(_, _)
Split(s, d) ==
    LET i == IndexOf(s, d)
    IN  IF i < 0 THEN <<s>>
        ELSE <<Slice(s, 0, i)>> \o Split(SliceFrom(s, i + 1), d)

RECURSIVE Join(_, _)
Join(parts, d) ==
    IF parts = <<>> THEN <<>>
    ELSE IF Len(parts) = 1 THEN parts[1]
    ELSE parts[1] \o d \o Join(Tail(parts), d)

RECURSIVE Concat(_)
Concat(parts) == IF parts = <<>> THEN <<>> ELSE Head(parts) \o Concat(Tail(parts))

MapSeq(s, Op(_)) == [i \in 1..Len(s) |-> Op(s[i])]

----------------------------------------------------------------------------
(* encodeURIComponent / decodeURIComponent (ECMAScript built-ins)          *)

\* the characters of the model that encodeURIComponent escapes
Reserved == {"&", "=", "%", "#", "?", "/", "\\", "@", ":", " "}

PctCode(c) ==
    CASE c = "&"  -> <<"%", "2", "6">>
      [] c = "="  -> <<"%", "3", "D">>
      [] c = "%"  -> <<"%", "2", "5">>
      [] c = "#"  -> <<"%", "2", "3">>
      [] c = "?"  -> <<"%", "3", "F">>
      [] c = "/"  -> <<"%", "2", "F">>
      [] c = "\\" -> <<"%", "5", "C">>
      [] c = "@"  -> <<"%", "4", "0">>
      [] c = ":"  -> <<"%", "3", "A">>
      [] c = " "  -> <<"%", "2", "0">>

encodeURIComponent(s) ==
    Concat([i \in 1..Len(s) |-> IF s[i] \in Reserved THEN PctCode(s[i]) ELSE <<s[i]>>])

\* decodeURIComponent throws URIError on a malformed escape; the model marks
\* the result with the character "URIError" and stops decoding there.
RECURSIVE decodeURIComponent(_)
decodeURIComponent(s) ==
    IF s = <<>> THEN <<>>
    ELSE IF Head(s) # "%" THEN <<Head(s)>> \o decodeURIComponent(Tail(s))
    ELSE IF Len(s) >= 3 /\ \E c \in Reserved : PctCode(c) = SubSeq(s, 1, 3)
         THEN <<CHOOSE c \in Reserved : PctCode(c) = SubSeq(s, 1, 3)>>
                  \o decodeURIComponent(SubSeq(s, 4, Len(s)))
         ELSE <<"URIError">>

----------------------------------------------------------------------------
(* JavaScript values and objects (insertion-ordered key/value lists)       *)

Undefined == [t |-> "undefined", s |-> <<>>]
True      == [t |-> "true", s |-> <<>>]
False     == [t |-> "false", s |-> <<>>]
StrV(s)   == [t |-> "string", s |-> s]

\* !!v
Truthy(v) == v.t = "true" \/ (v.t = "string" /\ v.s # <<>>)

HasKey(o, k) == \E i \in 1..Len(o) : o[i].k = k

Get(o, k) ==
    IF HasKey(o, k) THEN o[CHOOSE i \in 1..Len(o) : o[i].k = k].v ELSE Undefined

\* o[k] = v: an existing key keeps its position, a new key goes last
Set(o, k, v) ==
    IF HasKey(o, k)
    THEN [i \in 1..Len(o) |-> IF o[i].k = k THEN [k |-> k, v |-> v] ELSE o[i]]
    ELSE Append(o, [k |-> k, v |-> v])

\* { ...a, ...b }
RECURSIVE Spread(_, _)
Spread(a, b) ==
    IF b = <<>> THEN a ELSE Spread(Set(a, Head(b).k, Head(b).v), Tail(b))

\* deep equality of two objects: same keys with the same values, in any order
ObjEq(a, b) == {a[i] : i \in 1..Len(a)} = {b[i] : i \in 1..Len(b)}

----------------------------------------------------------------------------
(* PerforceUri.ts: the query-argument codec                                *)

\* encodeParam that writes a true value out as "=true"
encodeParam_TrueAsValue(param, value) ==
    IF value.t = "string"
    THEN StrV(encodeURIComponent(param) \o <<"=">> \o encodeURIComponent(value.s))
    ELSE IF value.t = "undefined" \/ Truthy(value)
         THEN StrV(encodeURIComponent(param) \o <<"=", "true">>)
         ELSE Undefined

encodeParam(param, value) ==
    IF value.t = "string"
    THEN StrV(encodeURIComponent(param) \o <<"=">> \o encodeURIComponent(value.s))
    ELSE IF value.t = "undefined" \/ Truthy(value)
         THEN StrV(encodeURIComponent(param))
         ELSE Undefined

encodeQuery(args) ==
    LET kept    == SelectSeq(args, LAMBDA arg : Truthy(arg.v))
        encoded == MapSeq(kept, LAMBDA arg : encodeParam(arg.k, arg.v))
        nonEmpty == SelectSeq(encoded, Truthy)
    IN  Join(MapSeq(nonEmpty, LAMBDA e : e.s), <<"&">>)

decodeArg(arg) ==
    LET parts == Split(arg, "=")
    IN  [k |-> decodeURIComponent(parts[1]),
         v |-> IF Len(parts) >= 2 /\ parts[2] # <<>>
               THEN StrV(decodeURIComponent(parts[2]))
               ELSE True]

RECURSIVE decodeArgs(_, _)
decodeArgs(allArgs, argArr) ==
    IF argArr = <<>> THEN allArgs
    ELSE LET a == decodeArg(Head(argArr))
         IN  decodeArgs(Set(allArgs, a.k, a.v), Tail(argArr))

decodeUriQuery(query) == decodeArgs(<<>>, Split(query, "&"))

----------------------------------------------------------------------------
(* Query codec specification: a mapping is encoded, then decoded           *)

K_command == <<"command">>
K_p4Args  == <<"p4Args">>
K_depot   == <<"depot">>

\* values a query argument is given: absent, undefined, false, "", true, strings
QueryValues ==
    {Undefined, False, StrV(<<>>), True,
     StrV(<<"-q">>), StrV(<<"p", "&", "r", "=", "int">>), StrV(<<"%", "2", "6">>)}

Absent == [t |-> "absent", s |-> <<>>]

\* the object literal { command: c, p4Args: p, depot: d } without its absent keys
MakeArgs(c, p, d) ==
    SelectSeq(<<[k |-> K_command, v |-> c], [k |-> K_p4Args, v |-> p],
                [k |-> K_depot, v |-> d]>>,
              LAMBDA e : e.v # Absent)

QueryArgSets ==
    {MakeArgs(c, p, d) : c \in QueryValues \cup {Absent},
                         p \in {Absent, StrV(<<"-q">>), True},
                         d \in {Absent, True, Undefined}}

QueryInit ==
    /\ qArgs \in QueryArgSets
    /\ qEncoded = <<>>
    /\ qDecoded = <<>>
    /\ qStep = "args"
    /\ IdleBut("query")

EncodeQuery ==
    /\ qStep = "args"
    /\ qEncoded' = encodeQuery(qArgs)
    /\ qStep' = "encoded"
    /\ UNCHANGED <<qArgs, qDecoded>>
    /\ UNCHANGED notQueryVars

DecodeUriQuery ==
    /\ qStep = "encoded"
    /\ qDecoded' = decodeUriQuery(qEncoded)
    /\ qStep' = "decoded"
    /\ UNCHANGED <<qArgs, qEncoded>>
    /\ UNCHANGED notQueryVars

QueryNext == EncodeQuery \/ DecodeUriQuery

SpecQuery == QueryInit /\ [][QueryNext]_vars

\* the values the round-trip property speaks of: non-empty strings and true
RoundTripValue(v) == v = True \/ (v.t = "string" /\ v.s # <<>>)
RoundTripArgs(m) == \A i \in 1..Len(m) : RoundTripValue(m[i].v)

\* C1: for any mapping m whose values are non-empty strings or true,
\* decodeUriQuery(encodeQuery(m)) equals m.
C1_RoundTrip ==
    (qStep = "decoded" /\ RoundTripArgs(qArgs)) => ObjEq(qDecoded, qArgs)

\* C1 restricted to mappings with at least one argument
C1_RoundTripNonEmpty ==
    (qStep = "decoded" /\ RoundTripArgs(qArgs) /\ qArgs # <<>>) => ObjEq(qDecoded, qArgs)

C1_Witness ==
    /\ qStep = "decoded"
    /\ Len(qArgs) = 3
    /\ RoundTripArgs(qArgs)
    /\ Get(qArgs, K_command) = StrV(<<"p", "&", "r", "=", "int">>)

\* the argument as it is written in a query string
WrittenArg(arg) ==
    IF arg.v = True THEN arg.k
    ELSE arg.k \o <<"=">> \o Concat([i \in 1..Len(arg.v.s) |->
                                 IF arg.v.s[i] \in Reserved THEN PctCode(arg.v.s[i])
                                 ELSE <<arg.v.s[i]>>])

\* C18: the encoded query is the "&"-joined list, in order, of the arguments whose
\* value is true, written as the bare key, or a non-empty string, written as
\* key=value with the value percent-encoded; undefined, false and "" are left out.
\* {command: "p&r=int", p4Args: "-q", depot: true} gives exactly
\* "command=p%26r%3Dint&p4Args=-q&depot".
C18_EncodeQuery ==
    qStep \in {"encoded", "decoded"} =>
        qEncoded = Join(MapSeq(SelectSeq(qArgs, LAMBDA arg : RoundTripValue(arg.v)),
                               WrittenArg),
                        <<"&">>)

C18_Example ==
    MakeArgs(StrV(<<"p", "&", "r", "=", "int">>), StrV(<<"-q">>), True)

\* the mapping of the example was encoded to the string of the example
C18_Witness ==
    /\ qStep = "encoded"
    /\ qArgs = C18_Example
    /\ qEncoded = <<"command", "=", "p", "%", "2", "6", "r", "%", "3", "D", "int", "&",
                    "p4Args", "=", "-q", "&", "depot">>

----------------------------------------------------------------------------
(* vscode.Uri (the editor's URI value type): parse, file, with, fsPath     *)

\* 1-based position of the first character of s that is in set, or Len(s) + 1
FirstIn(s, set) ==
    IF \E i \in 1..Len(s) : s[i] \in set
    THEN CHOOSE i \in 1..Len(s) : s[i] \in set /\ \A j \in 1..(i - 1) : s[j] \notin set
    ELSE Len(s) + 1

\* percentDecode: decodes the well-formed escapes and leaves the others as they are
RECURSIVE percentDecode(_)
percentDecode(s) ==
    IF s = <<>> THEN <<>>
    ELSE IF Head(s) = "%" /\ Len(s) >= 3 /\ \E c \in Reserved : PctCode(c) = SubSeq(s, 1, 3)
         THEN <<CHOOSE c \in Reserved : PctCode(c) = SubSeq(s, 1, 3)>>
                  \o percentDecode(SubSeq(s, 4, Len(s)))
         ELSE <<Head(s)>> \o percentDecode(Tail(s))

\* new Uri(...): _schemeFix and _referenceResolution
NewUri(scheme, authority, path, query, fragment) ==
    LET sch == IF scheme = <<>> THEN <<"file">> ELSE scheme
        pth == IF sch \in {<<"file">>, <<"http">>, <<"https">>}
               THEN IF path = <<>> THEN <<"/">>
                    ELSE IF Head(path) # "/" THEN <<"/">> \o path ELSE path
               ELSE path
    IN  [scheme |-> sch, authority |-> authority, path |-> pth,
         query |-> query, fragment |-> fragment]

\* Uri.parse: ^(([^:/?#]+?):)?(\/\/([^/?#]*))?([^?#]*)(\?([^#]*))?(#(.*))?
UriParse(str) ==
    LET p         == FirstIn(str, {":", "/", "?", "#"})
        hasScheme == p > 1 /\ p <= Len(str) /\ str[p] = ":"
        scheme    == IF hasScheme THEN SubSeq(str, 1, p - 1) ELSE <<>>
        r1        == IF hasScheme THEN SubSeq(str, p + 1, Len(str)) ELSE str
        hasAuth   == Len(r1) >= 2 /\ r1[1] = "/" /\ r1[2] = "/"
        a         == SubSeq(r1, 3, Len(r1))
        ae        == FirstIn(a, {"/", "?", "#"})
        authority == IF hasAuth THEN SubSeq(a, 1, ae - 1) ELSE <<>>
        r2        == IF hasAuth THEN SubSeq(a, ae, Len(a)) ELSE r1
        pe        == FirstIn(r2, {"?", "#"})
        path      == SubSeq(r2, 1, pe - 1)
        r3        == SubSeq(r2, pe, Len(r2))
        hasQuery  == r3 # <<>> /\ r3[1] = "?"
        q         == SubSeq(r3, 2, Len(r3))
        qe        == FirstIn(q, {"#"})
        query     == IF hasQuery THEN SubSeq(q, 1, qe - 1) ELSE <<>>
        r4        == IF hasQuery THEN SubSeq(q, qe, Len(q)) ELSE r3
        fragment  == IF r4 # <<>> THEN Tail(r4) ELSE <<>>
    IN  NewUri(scheme, percentDecode(authority), percentDecode(path),
               percentDecode(query), percentDecode(fragment))

ReplaceChar(s, from, to) == [i \in 1..Len(s) |-> IF s[i] = from THEN to ELSE s[i]]

\* Uri.file(path)
UriFile(plat, path) ==
    LET p1   == IF plat = "win32" THEN ReplaceChar(path, "\\", "/") ELSE path
        unc  == Len(p1) >= 2 /\ p1[1] = "/" /\ p1[2] = "/"
        rest == SubSeq(p1, 3, Len(p1))
        idx  == FirstIn(rest, {"/"})
        auth == IF unc THEN SubSeq(rest, 1, idx - 1) ELSE <<>>
        p2   == IF unc
                THEN IF idx > Len(rest) THEN <<"/">> ELSE SubSeq(rest, idx, Len(rest))
                ELSE p1
    IN  NewUri(<<"file">>, auth, p2, <<>>, <<>>)

DriveLetters == {"c", "C"}
ToLowerDrive(c) == IF c = "C" THEN "c" ELSE c

\* uri.fsPath (uriToFsPath)
UriFsPath(plat, u) ==
    LET value ==
            IF u.authority # <<>> /\ Len(u.path) > 1 /\ u.scheme = <<"file">>
            THEN <<"/", "/">> \o u.authority \o u.path
            ELSE IF Len(u.path) >= 3 /\ u.path[1] = "/" /\ u.path[2] \in DriveLetters
                    /\ u.path[3] = ":"
                 THEN <<ToLowerDrive(u.path[2])>> \o SubSeq(u.path, 3, Len(u.path))
                 ELSE u.path
    IN  IF plat = "win32" THEN ReplaceChar(value, "/", "\\") ELSE value

\* uri.with(change): a component of change that is undefined keeps its value
UriWith(u, change) ==
    LET new(f) == IF f \in DOMAIN change /\ change[f].t = "string"
                  THEN change[f].s ELSE u[f]
    IN  NewUri(new("scheme"), new("authority"), new("path"), new("query"),
               new("fragment"))

\* encodeURIComponentFast: "/" is kept in a path and ":" in an authority
encodeURIComponentFast(s, isPath, isAuthority) ==
    Concat([i \in 1..Len(s) |->
        IF s[i] \in Reserved /\ ~(isPath /\ s[i] = "/") /\ ~(isAuthority /\ s[i] = ":")
        THEN PctCode(s[i]) ELSE <<s[i]>>])

\* authority.toLowerCase() for the authorities of the model
LowerAuthority(a) == [i \in 1..Len(a) |-> IF a[i] = "DepOt" THEN "depot" ELSE a[i]]

\* uri.toString(true): only "#" and "?" are percent-encoded
UriToString_SkipEncoding(u) ==
    LET minimal(x) == Concat([i \in 1..Len(x) |->
                          IF x[i] \in {"#", "?"} THEN PctCode(x[i]) ELSE <<x[i]>>])
    IN  u.scheme \o <<":">>
        \o (IF u.authority # <<>> \/ u.scheme = <<"file">> THEN <<"/", "/">> ELSE <<>>)
        \o minimal(LowerAuthority(u.authority))
        \o minimal(u.path)
        \o (IF u.query # <<>> THEN <<"?">> \o minimal(u.query) ELSE <<>>)
        \o (IF u.fragment # <<>> THEN <<"#">> \o u.fragment ELSE <<>>)

\* uri.toString() (_asFormatted with encoding): the authority and a drive letter
\* are written in lower case, every component is percent-encoded
UriToString(u) ==
    LET path == IF Len(u.path) >= 3 /\ u.path[1] = "/" /\ u.path[3] = ":"
                THEN <<"/", ToLowerDrive(u.path[2])>> \o SubSeq(u.path, 3, Len(u.path))
                ELSE IF Len(u.path) >= 2 /\ u.path[2] = ":"
                     THEN <<ToLowerDrive(u.path[1])>> \o Tail(u.path)
                     ELSE u.path
    IN  u.scheme \o <<":">>
        \o (IF u.authority # <<>> \/ u.scheme = <<"file">> THEN <<"/", "/">> ELSE <<>>)
        \o encodeURIComponentFast(LowerAuthority(u.authority), FALSE, TRUE)
        \o encodeURIComponentFast(path, TRUE, FALSE)
        \o (IF u.query # <<>>
            THEN <<"?">> \o encodeURIComponentFast(u.query, FALSE, FALSE) ELSE <<>>)
        \o (IF u.fragment # <<>>
            THEN <<"#">> \o encodeURIComponentFast(u.fragment, FALSE, FALSE) ELSE <<>>)

----------------------------------------------------------------------------
(* PerforceUri.ts: resource addresses                                      *)

K_workspace == <<"workspace">>
K_depotName == <<"depotName">>
K_rev       == <<"rev">>
K_leftUri   == <<"leftUri">>

getRevOrAtLabel(u) == u.fragment

withoutRev(path, revOrAtLabel) == path

uriWithoutRev(u) ==
    UriWith(u, [path |-> StrV(withoutRev(u.path, getRevOrAtLabel(u)))])

fsPathWithoutRev(plat, u) == UriFsPath(plat, uriWithoutRev(u))

revOrLabelAsSuffix(revOrAtLabel) ==
    IF Truthy(revOrAtLabel)
    THEN IF Head(revOrAtLabel.s) = "@" THEN revOrAtLabel.s ELSE <<"#">> \o revOrAtLabel.s
    ELSE <<>>

\* the earlier form of uriWithRev, which also appended the suffix to the path
uriWithRev_PathSuffix(u, revOrAtLabel) ==
    UriWith(u, [path |-> StrV(u.path \o revOrLabelAsSuffix(revOrAtLabel)),
                fragment |-> revOrAtLabel])

uriWithRev(u, revOrAtLabel) == UriWith(u, [fragment |-> revOrAtLabel])

\* a parse that leaves the standard URI parsing as it is
parse_Standard(str) == UriParse(str)

\* the rest of parse, for the standard parse of the string
withRevInFragment(parsed) ==
    LET queryIndex    == IndexOf(parsed.fragment, "?")
        fragmentIndex == IndexOf(parsed.fragment, "#")
    IN  IF queryIndex >= 0 \/ fragmentIndex >= 0
        THEN UriWith(parsed,
                [path     |-> StrV(parsed.path \o <<"#">>
                                   \o Slice(parsed.fragment, 0,
                                            IF queryIndex >= 0 THEN queryIndex
                                            ELSE fragmentIndex)),
                 fragment |-> StrV(IF fragmentIndex > 0
                                   THEN SliceFrom(parsed.fragment, fragmentIndex + 1)
                                   ELSE <<>>),
                 query    |-> IF queryIndex >= 0
                              THEN StrV(Slice(parsed.fragment, queryIndex + 1,
                                              IF fragmentIndex > 0 THEN fragmentIndex
                                              ELSE Len(parsed.fragment)))
                              ELSE Undefined])
        ELSE parsed

\* vscode.Uri.parse, then the revision, query and fragment out of the fragment
parse(str) == CHOOSE result \in {withRevInFragment(parsed) : parsed \in {UriParse(str)}} : TRUE

\* a JS value used where a string is expected
AsString(v) == IF v.t = "string" THEN v.s ELSE <<v.t>>

getDepotPathFromDepotUri(u) ==
    LET args == decodeUriQuery(u.query)
        name == IF Get(args, K_depotName) = Undefined
                THEN u.authority ELSE AsString(Get(args, K_depotName))
    IN  <<"/", "/">> \o name \o uriWithoutRev(u).path

hasTruthyArg(u, arg) == Truthy(Get(decodeUriQuery(u.query), arg))

isDepotUri(u) == hasTruthyArg(u, K_depot)

\* the usability test without its workspace-argument alternative
isUsableForWorkspace_LocalOnly(plat, u) ==
    ~isDepotUri(u) /\ UriFsPath(plat, u) # <<>>

isUsableForWorkspace(plat, u) ==
    (~isDepotUri(u) /\ UriFsPath(plat, u) # <<>>) \/ hasTruthyArg(u, K_workspace)

\* an optional address is <<>> (undefined) or <<address>>
getWorkspaceFromQuery(plat, u) ==
    LET ws == Get(decodeUriQuery(u.query), K_workspace)
    IN  IF Truthy(ws) THEN <<UriFile(plat, AsString(ws))>> ELSE <<>>

getUsableWorkspace(plat, u) ==
    IF ~isDepotUri(u) /\ UriFsPath(plat, u) # <<>>
    THEN <<UriFile(plat, UriFsPath(plat, uriWithoutRev(u)))>>
    ELSE getWorkspaceFromQuery(plat, u)

defaultArgs ==
    <<[k |-> K_command, v |-> StrV(<<"print">>)], [k |-> K_p4Args, v |-> StrV(<<"-q">>)]>>

fromUri(u, otherArgs) ==
    UriWith(u, [scheme |-> StrV(<<"perforce">>),
                query  |-> StrV(encodeQuery(
                               Spread(Spread(defaultArgs, decodeUriQuery(u.query)),
                                      otherArgs)))])

forCommand(plat, resource, command, p4Args) ==
    fromUri(UriParse(<<"perforce", ":">>),
            <<[k |-> K_command, v |-> StrV(command)],
              [k |-> K_p4Args, v |-> StrV(p4Args)],
              [k |-> K_workspace, v |-> StrV(UriFsPath(plat, resource))]>>)

fromDepotPath(plat, workspace, depotPath, revisionOrAtLabel) ==
    LET baseUri   == uriWithRev(UriParse(<<"perforce", ":">> \o depotPath),
                                revisionOrAtLabel)
        parts     == Split(depotPath, "/")
        depotName == IF Len(parts) >= 3 THEN StrV(parts[3]) ELSE Undefined
        usable    == getUsableWorkspace(plat, workspace)
        ws        == IF usable # <<>> THEN usable[1] ELSE workspace
    IN  fromUri(baseUri,
                <<[k |-> K_depot, v |-> True],
                  [k |-> K_workspace, v |-> StrV(UriFsPath(plat, ws))],
                  [k |-> K_depotName, v |-> depotName],
                  [k |-> K_rev, v |-> revisionOrAtLabel]>>)

\* fromUriWithRevision without the rev query argument
fromUriWithRevision_NoRevArg(u, revisionOrAtLabel) ==
    uriWithRev(fromUri(uriWithoutRev(u), <<>>), StrV(revisionOrAtLabel))

fromUriWithRevision(u, revisionOrAtLabel) ==
    uriWithRev(fromUri(uriWithoutRev(u),
                       <<[k |-> K_rev, v |-> StrV(revisionOrAtLabel)]>>),
               StrV(revisionOrAtLabel))

\* withArgs that always goes through uriWithRev, with "" for a missing revision
withArgs_AlwaysSetsRev(u, args, revisionOrAtLabel) ==
    LET curArgs == decodeUriQuery(u.query)
        rev     == IF revisionOrAtLabel # Undefined THEN revisionOrAtLabel ELSE StrV(<<>>)
        newQuery == encodeQuery(Set(Spread(curArgs, args), K_rev, rev))
    IN  uriWithRev(UriWith(uriWithoutRev(u), [query |-> StrV(newQuery)]), rev)

\* withArgs that spreads the existing arguments over the new ones
withArgs_ExistingWin(u, args, revisionOrAtLabel) ==
    LET curArgs  == decodeUriQuery(u.query)
        newQuery == IF revisionOrAtLabel # Undefined
                    THEN encodeQuery(Set(Spread(args, curArgs), K_rev, revisionOrAtLabel))
                    ELSE encodeQuery(Spread(args, curArgs))
    IN  IF revisionOrAtLabel # Undefined
        THEN uriWithRev(UriWith(uriWithoutRev(u), [query |-> StrV(newQuery)]),
                        revisionOrAtLabel)
        ELSE UriWith(u, [query |-> StrV(newQuery)])

withArgs(u, args, revisionOrAtLabel) ==
    LET curArgs  == decodeUriQuery(u.query)
        newQuery == IF revisionOrAtLabel # Undefined
                    THEN encodeQuery(Set(Spread(curArgs, args), K_rev, revisionOrAtLabel))
                    ELSE encodeQuery(Spread(curArgs, args))
    IN  IF revisionOrAtLabel # Undefined
        THEN uriWithRev(UriWith(uriWithoutRev(u), [query |-> StrV(newQuery)]),
                        revisionOrAtLabel)
        ELSE UriWith(u, [query |-> StrV(newQuery)])

----------------------------------------------------------------------------
(* Address specification: addresses are built and derived by the factories *)

MaxUriSteps == 2

\* a local file of the workspace, as the platform writes its path
LocalPath(plat) ==
    IF plat = "win32" THEN <<"c", ":", "\\", "home", "\\", "file.txt">>
    ELSE <<"/", "home", "/", "file.txt">>

DepotPaths ==
    {<<"/", "/", "depot", "/", "my", "/", "file.txt">>,
     <<"/", "/", "DepOt", "/", "myFile">>,
     <<"/", "/", "depot", "/", "a", "\\", "b.txt">>,
     <<"/", "/", "depot", "/", "a", "?", "b.txt">>}

\* revisions and labels: "2", "@=9"
Revs == {<<"2">>, <<"@", "=", "9">>}
OptRevs == {StrV(r) : r \in Revs} \cup {Undefined}

FromUriArgs ==
    {<<>>,
     <<[k |-> K_depot, v |-> True]>>,
     <<[k |-> K_command, v |-> StrV(<<"opened">>)], [k |-> K_p4Args, v |-> Undefined]>>}

WithArgsArgs ==
    {<<[k |-> K_p4Args, v |-> StrV(<<"x">>)]>>,
     <<[k |-> K_command, v |-> Undefined]>>,
     <<[k |-> K_depot, v |-> True], [k |-> K_p4Args, v |-> StrV(<<"hello">>)]>>,
     <<[k |-> K_leftUri, v |-> StrV(<<"perforce", ":", "/", "left", "#", "1">>)]>>}

\* a local path as the Perforce client prints it on Windows
ClientPath == <<"C", ":", "\\", "work", "\\", "a.txt">>

UriOp(name, rev, args, depotPath) ==
    [name |-> name, rev |-> rev, args |-> args, depotPath |-> depotPath]

UriInit ==
    /\ platform \in {"posix", "win32"}
    /\ uri \in {UriFile(platform, LocalPath(platform)),
                UriParse(<<"perforce", ":">>),
                UriParse(<<"perforce", ":", "/", "/", "depot", "/", "hello">>)}
               \cup (IF platform = "win32" THEN {UriFile(platform, ClientPath)} ELSE {})
    /\ uriArg = uri
    /\ uriOp = UriOp("init", Undefined, <<>>, <<>>)
    /\ uriSteps = 0
    /\ IdleBut("uri")

UriStep(name, rev, args, depotPath, result) ==
    /\ uriSteps < MaxUriSteps
    /\ uriSteps' = uriSteps + 1
    /\ uri' = result
    /\ uriArg' = uri          \* no operation assigns to its argument
    /\ uriOp' = UriOp(name, rev, args, depotPath)
    /\ UNCHANGED platform
    /\ UNCHANGED notUriVars

FromUri ==
    \E otherArgs \in FromUriArgs :
        UriStep("fromUri", Undefined, otherArgs, <<>>, fromUri(uri, otherArgs))

ForCommand ==
    UriStep("forCommand", Undefined, <<>>, <<>>,
            forCommand(platform, uri, <<"set">>, <<"-q">>))

FromDepotPath ==
    \E depotPath \in DepotPaths, rev \in OptRevs :
        UriStep("fromDepotPath", rev, <<>>, depotPath,
                fromDepotPath(platform, uri, depotPath, rev))

FromUriWithRevision ==
    \E rev \in Revs :
        UriStep("fromUriWithRevision", StrV(rev), <<>>, <<>>,
                fromUriWithRevision(uri, rev))

WithArgs ==
    \E args \in WithArgsArgs, rev \in OptRevs :
        UriStep("withArgs", rev, args, <<>>, withArgs(uri, args, rev))

\* an address built by the factories is kept as uri.toString() and parsed back
SaveReload ==
    /\ uriOp.name # "init"
    /\ UriStep("reload", Undefined, <<>>, <<>>, parse(UriToString(uri)))

UriNext ==
    FromUri \/ ForCommand \/ FromDepotPath \/ FromUriWithRevision \/ WithArgs \/ SaveReload

SpecUri == UriInit /\ [][UriNext]_vars

\* C2: for any depot path and revision, getDepotPathFromDepotUri(fromDepotPath(ws,
\* path, N)) equals the original depot path exactly.
C2_DepotPathRoundTrip ==
    uriOp.name = "fromDepotPath" => getDepotPathFromDepotUri(uri) = uriOp.depotPath

\* C3: withArgs without a revision argument keeps the fragment of the address;
\* with a revision argument R the fragment of the result is R.
C3_WithArgsFragment ==
    uriOp.name = "withArgs" =>
        /\ (uriOp.rev = Undefined => uri.fragment = uriArg.fragment)
        /\ (uriOp.rev # Undefined => uri.fragment = uriOp.rev.s)

C3_Witness ==
    /\ uriOp.name = "withArgs"
    /\ uriOp.rev = Undefined
    /\ uriArg.fragment = <<"2">>
    /\ uri.fragment = <<"2">>
    /\ uri.query # uriArg.query

\* C4: setting a revision is idempotent: setting revision r on the result of
\* fromUriWithRevision(addr, r) yields that result again.
C4_RevisionIdempotent ==
    uriOp.name = "fromUriWithRevision" => fromUriWithRevision(uri, uriOp.rev.s) = uri

C4_Witness ==
    /\ uriOp.name = "fromUriWithRevision"
    /\ uriArg.fragment # uri.fragment
    /\ uriArg.query # <<>>
    /\ fromUriWithRevision(uri, uriOp.rev.s) = uri

\* the names of the arguments an object holds
Keys(o) == {o[i].k : i \in 1..Len(o)}

\* the query arguments of an address; a query string has no argument without a name
QueryArgs(u) == decodeUriQuery(u.query)
ArgNames(u) == Keys(QueryArgs(u)) \ {<<>>}

\* C13: after withArgs(addr, args) every argument named in args has the new value
\* (an undefined value removes it) and every other argument of addr has the value
\* it had; no other argument appears.  With the optional revision, rev is set to it.
C13_WithArgsMerge ==
    uriOp.name = "withArgs" =>
        \A k \in ArgNames(uriArg) \cup ArgNames(uri) \cup Keys(uriOp.args) :
            Get(QueryArgs(uri), k) =
                IF k = K_rev /\ uriOp.rev # Undefined THEN uriOp.rev
                ELSE IF HasKey(uriOp.args, k) THEN Get(uriOp.args, k)
                ELSE Get(QueryArgs(uriArg), k)

\* p4Args was replaced on an address that had p4Args and command: command is kept
C13_Witness ==
    /\ uriOp.name = "withArgs"
    /\ uriOp.rev = Undefined
    /\ Get(QueryArgs(uriArg), K_p4Args) = StrV(<<"-q">>)
    /\ Get(QueryArgs(uriArg), K_command) = StrV(<<"print">>)
    /\ Get(uriOp.args, K_p4Args) = StrV(<<"hello">>)
    /\ Get(QueryArgs(uri), K_p4Args) = StrV(<<"hello">>)
    /\ Get(QueryArgs(uri), K_command) = StrV(<<"print">>)

\* the same path, query arguments and revision fragment
SameAddress(a, b) ==
    /\ a.path = b.path
    /\ ObjEq(decodeUriQuery(a.query), decodeUriQuery(b.query))
    /\ a.fragment = b.fragment

\* the path with a leading Windows drive letter in lower case
DriveLowered(path) ==
    IF Len(path) >= 3 /\ path[1] = "/" /\ path[3] = ":"
    THEN <<"/", ToLowerDrive(path[2])>> \o SubSeq(path, 3, Len(path))
    ELSE path

\* C11 as stated: parsing the string form of an address built by the factories
\* yields the same path, query arguments and revision fragment.
C11_ReloadSameAddress ==
    uriOp.name = "reload" => SameAddress(uri, uriArg)

\* C11: parsing the string form of an address built by the factories yields an
\* address with the same string form, query arguments and revision fragment, and
\* the same path but for a Windows drive letter, which comes back in lower case.
C11_ReloadStable ==
    uriOp.name = "reload" =>
        /\ UriToString(uri) = UriToString(uriArg)
        /\ uri.path = DriveLowered(uriArg.path)
        /\ uri.query = uriArg.query
        /\ ObjEq(decodeUriQuery(uri.query), decodeUriQuery(uriArg.query))
        /\ uri.fragment = uriArg.fragment

\* an address with a revision fragment and an upper-case drive letter was reloaded
C11_Witness ==
    /\ uriOp.name = "reload"
    /\ uriArg.fragment # <<>>
    /\ uriArg.query # <<>>
    /\ uriArg.path # DriveLowered(uriArg.path)
    /\ uri.path = DriveLowered(uriArg.path)

\* the address carries "workspace=<non-empty value>" in its query string
HasWorkspaceArg(u) ==
    \E i \in 1..Len(Split(u.query, "&")) :
        LET seg == Split(u.query, "&")[i]
        IN  Len(seg) >= 3 /\ seg[1] = "workspace" /\ seg[2] = "="

\* the address carries the bare "depot" flag in its query string
HasDepotFlag(u) ==
    \E i \in 1..Len(Split(u.query, "&")) : Split(u.query, "&")[i] = <<"depot">>

IsPlainLocal(u) == ~HasDepotFlag(u) /\ u.path # <<>>

\* C9 as stated: usable if plain local or carrying a workspace argument, and
\* always usable when it is a depot address.
C9_AlwaysUsableForDepot ==
    /\ (IsPlainLocal(uri) \/ HasWorkspaceArg(uri)) => isUsableForWorkspace(platform, uri)
    /\ HasDepotFlag(uri) => isUsableForWorkspace(platform, uri)

\* C9 (amended): usable if plain local or carrying a workspace argument; a depot
\* address is usable exactly when it carries a workspace argument.
C9_UsableForWorkspace ==
    /\ (IsPlainLocal(uri) \/ HasWorkspaceArg(uri)) => isUsableForWorkspace(platform, uri)
    /\ HasDepotFlag(uri) => (isUsableForWorkspace(platform, uri) <=> HasWorkspaceArg(uri))

C9_Witness ==
    /\ uriOp.name = "fromDepotPath"
    /\ HasDepotFlag(uri)
    /\ HasWorkspaceArg(uri)
    /\ isUsableForWorkspace(platform, uri)

\* the query string carries "rev=" followed by the percent-encoded revision
HasEncodedRevArg(u, r) ==
    \E i \in 1..Len(Split(u.query, "&")) :
        Split(u.query, "&")[i] = <<"rev", "=">> \o encodeURIComponent(r)

\* C10: fromUriWithRevision(addr, r) returns an address with r as its fragment and,
\* encoded, as its rev query argument, and leaves the address it was given as it was.
C10_WithRevision ==
    [][uriOp'.name = "fromUriWithRevision" =>
          /\ uri'.fragment = uriOp'.rev.s
          /\ HasEncodedRevArg(uri', uriOp'.rev.s)
          /\ Get(decodeUriQuery(uri'.query), K_rev) = uriOp'.rev
          /\ uriArg' = uri]_vars

C10_Witness ==
    /\ uriOp.name = "fromUriWithRevision"
    /\ uriOp.rev = StrV(<<"@", "=", "9">>)
    /\ uri.fragment = <<"@", "=", "9">>
    /\ HasEncodedRevArg(uri, <<"@", "=", "9">>)
    /\ uriArg.fragment = <<"2">>

----------------------------------------------------------------------------
(* CommandUtils.ts: text helpers shared by the parsers                     *)

StartsWith(s, prefix) ==
    Len(s) >= Len(prefix) /\ SubSeq(s, 1, Len(prefix)) = prefix

splitIntoLines(str) == Split(str, "\n")

\* split at every blank-line boundary (two consecutive line breaks)
RECURSIVE splitIntoSections(_)
splitIntoSections(str) ==
    IF \E i \in 1..(Len(str) - 1) : str[i] = "\n" /\ str[i + 1] = "\n"
    THEN LET i == CHOOSE i \in 1..(Len(str) - 1) :
                      /\ str[i] = "\n" /\ str[i + 1] = "\n"
                      /\ \A j \in 1..(i - 1) : ~(str[j] = "\n" /\ str[j + 1] = "\n")
         IN  <<SubSeq(str, 1, i - 1)>> \o splitIntoSections(SubSeq(str, i + 2, Len(str)))
    ELSE <<str>>

removeLeadingNewline(value) ==
    IF value # <<>> /\ Head(value) = "\n" THEN Tail(value) ELSE value

\* one level of leading-tab indentation is stripped from every line
removeIndent(lines) ==
    [i \in 1..Len(lines) |->
        IF lines[i] # <<>> /\ Head(lines[i]) = "\t" THEN Tail(lines[i]) ELSE lines[i]]

----------------------------------------------------------------------------
(* SpecParser.ts and api/commands/changeSpec.ts: the spec field codec      *)

parseRawField(value) == removeIndent(splitIntoLines(removeLeadingNewline(value)))

parseRawFields(parts) ==
    [i \in 1..Len(parts) |->
        LET colPos == IndexOf(parts[i], ":")
        IN  [name  |-> IF colPos >= 0 THEN Slice(parts[i], 0, colPos)
                       ELSE Slice(parts[i], 0, Len(parts[i]) - 1),
             value |-> parseRawField(SliceFrom(parts[i], colPos + 2))]]

\* an optional value is <<>> (undefined) or <<value>>
getBasicField(fields, field) ==
    IF \E i \in 1..Len(fields) : fields[i].name = field
    THEN <<fields[CHOOSE i \in 1..Len(fields) :
                     fields[i].name = field
                     /\ \A j \in 1..(i - 1) : fields[j].name # field].value>>
    ELSE <<>>

excludeNonFields(parts) ==
    SelectSeq(parts, LAMBDA part : ~StartsWith(part, <<"#">>) /\ part # <<>>)

parseSpecOutput(output) == parseRawFields(excludeNonFields(splitIntoSections(output)))

\* String.prototype.trim on the characters of the model
RECURSIVE TrimLeft(_)
TrimLeft(s) ==
    IF s # <<>> /\ Head(s) \in {" ", "\t", "\n"} THEN TrimLeft(Tail(s)) ELSE s
RECURSIVE TrimRight(_)
TrimRight(s) ==
    IF s # <<>> /\ s[Len(s)] \in {" ", "\t", "\n"}
    THEN TrimRight(SubSeq(s, 1, Len(s) - 1)) ELSE s
Trim(s) == TrimRight(TrimLeft(s))

parseSpecFile(file) ==
    LET endOfFileStr == IndexOf(file, "#")
    IN  [depotPath |-> Trim(IF endOfFileStr >= 0 THEN Slice(file, 0, endOfFileStr)
                            ELSE Slice(file, 0, Len(file) - 1)),
         action    |-> SliceFrom(file, endOfFileStr + 2)]

\* the ChangeSpec object; an absent member is <<>>, a present one <<value>>
mapToChangeFields(rawFields) ==
    LET change == getBasicField(rawFields, <<"Change">>)
        desc   == getBasicField(rawFields, <<"Description">>)
        files  == getBasicField(rawFields, <<"Files">>)
    IN  [change      |-> IF change # <<>> THEN <<Trim(change[1][1])>> ELSE <<>>,
         description |-> IF desc # <<>> THEN <<Join(desc[1], <<"\n">>)>> ELSE <<>>,
         files       |-> IF files # <<>> THEN <<MapSeq(files[1], parseSpecFile)>> ELSE <<>>,
         rawFields   |-> rawFields]

parseChangeSpec(output) == mapToChangeFields(parseSpecOutput(output))

getChangeAsRawField(sp) ==
    IF sp.change # <<>> /\ sp.change[1] # <<>>
    THEN <<[name |-> <<"Change">>, value |-> <<sp.change[1]>>]>> ELSE <<>>

getDescriptionAsRawField(sp) ==
    IF sp.description # <<>> /\ sp.description[1] # <<>>
    THEN <<[name |-> <<"Description">>, value |-> splitIntoLines(sp.description[1])]>>
    ELSE <<>>

getFilesAsRawField(sp) ==
    IF sp.files # <<>>
    THEN <<[name  |-> <<"Files">>,
            value |-> MapSeq(sp.files[1],
                             LAMBDA file : file.depotPath \o <<"\t", "#", " ">> \o file.action)]>>
    ELSE <<>>

\* concatIfOutputIsDefined(getChangeAsRawField, getDescriptionAsRawField, getFilesAsRawField)
getDefinedSpecFields(sp) ==
    getChangeAsRawField(sp) \o getDescriptionAsRawField(sp) \o getFilesAsRawField(sp)

\* field.name.toLowerCase() for the field names of the model
toLowerCase(name) ==
    CASE name = <<"Change">> -> <<"change">>
      [] name = <<"Description">> -> <<"description">>
      [] name = <<"Files">> -> <<"files">>
      [] name = <<"Jobs">> -> <<"jobs">>
      [] name = <<"Type">> -> <<"type">>
      [] name = <<"Client">> -> <<"client">>
      [] OTHER -> name

\* !!spec[key] for a key that is a string
SpecMemberTruthy(sp, key) ==
    CASE key = <<"change">> -> sp.change # <<>> /\ sp.change[1] # <<>>
      [] key = <<"description">> -> sp.description # <<>> /\ sp.description[1] # <<>>
      [] key = <<"files">> -> sp.files # <<>>
      [] OTHER -> FALSE

serializeField(field) == field.name \o <<":", "\t">> \o Join(field.value, <<"\n", "\t">>)

\* inputChange that writes the semantically-known fields only
inputChange_KnownFieldsOnly(sp) ==
    Join(MapSeq(getDefinedSpecFields(sp), serializeField), <<"\n", "\n">>) \o <<"\n", "\n">>

\* the "input" inputChange hands to "p4 change -i"
inputChange(sp) ==
    Join(MapSeq(getDefinedSpecFields(sp)
                    \o SelectSeq(sp.rawFields,
                                 LAMBDA field :
                                     ~SpecMemberTruthy(sp, toLowerCase(field.name))),
                serializeField),
         <<"\n", "\n">>) \o <<"\n", "\n">>

----------------------------------------------------------------------------
(* Change spec specification: a spec is read, edited and written back      *)

CommentSection ==
    <<"#", " ", "A Perforce Change Specification.", "\n", "#", " ", "Change", ":", " ",
      "The change number.">>

ChangeSections == {<<"Change", ":", "\t", "new">>, <<"Change", ":", "\t", "45">>}

DescriptionSections ==
    {<<"Description", ":", "\n", "\t", "<enter description here>">>,
     <<"Description", ":", "\n", "\t", "first line", "\n", "\t", "\n", "\t", "last line">>}

FilesSections ==
    {<<>>,
     <<"Files", ":", "\n", "\t", "/", "/", "depot", "/", "a.txt", "\t", "#", " ", "edit">>}

\* fields the codec does not model: inline, multi-line and indented values
CustomSections ==
    {<<>>,
     <<"Type", ":", "\t", "restricted">>,
     <<"Jobs", ":", "\n", "\t", "job001", "\n", "\t", "job002">>,
     <<"Client", ":", "\t", "my", " ", "client">>,
     <<"Jobs", ":", "\n", "\t", "job001", " ", "#", " ", "note", ":", " ", "x">>}

UnmodelledNames == {<<"Type">>, <<"Jobs">>, <<"Client">>}

\* the text of a spec: its sections separated by blank lines
SpecTextOf(sections, ending) ==
    Join(SelectSeq(sections, LAMBDA x : x # <<>>), <<"\n", "\n">>) \o ending

SpecTexts ==
    {SpecTextOf(<<CommentSection, ch, cu1, de, fi, cu2>>, ending) :
        ch \in ChangeSections, de \in DescriptionSections, fi \in FilesSections,
        cu1 \in {<<>>, <<"Type", ":", "\t", "restricted">>},
        cu2 \in CustomSections \ {<<"Type", ":", "\t", "restricted">>},
        ending \in {<<"\n">>, <<"\n", "\n">>}}

\* descriptions the callers assign: SaveToChangelist, createEmptyChangelist
NewDescriptions == {<<"<saved by VSCode>">>, <<"fix", "\n", "\n", "more">>}

ChangeSpecInit ==
    /\ specText \in SpecTexts
    /\ spec = <<>>
    /\ specInput = <<>>
    /\ specStep = "text"
    /\ IdleBut("spec")

GetChangeSpec ==
    /\ specStep = "text"
    /\ spec' = parseChangeSpec(specText)
    /\ specStep' = "parsed"
    /\ UNCHANGED <<specText, specInput>>
    /\ UNCHANGED notSpecVars

SetDescription ==
    /\ specStep = "parsed"
    /\ \E descStr \in NewDescriptions :
           spec' = [spec EXCEPT !.description = <<descStr>>]
    /\ UNCHANGED <<specText, specInput, specStep>>
    /\ UNCHANGED notSpecVars

SetFiles ==
    /\ specStep = "parsed"
    /\ spec' = [spec EXCEPT !.files = <<<<>>>>]
    /\ UNCHANGED <<specText, specInput, specStep>>
    /\ UNCHANGED notSpecVars

InputChangeSpec ==
    /\ specStep = "parsed"
    /\ specInput' = inputChange(spec)
    /\ specStep' = "written"
    /\ UNCHANGED <<specText, spec>>
    /\ UNCHANGED notSpecVars

ChangeSpecNext == GetChangeSpec \/ SetDescription \/ SetFiles \/ InputChangeSpec

SpecChangeSpec == ChangeSpecInit /\ [][ChangeSpecNext]_vars

SeqToSet(q) == {q[i] : i \in 1..Len(q)}

\* the fields of the original text that the codec does not model
UnmodelledFields(text) ==
    {f \in SeqToSet(parseSpecOutput(text)) : f.name \in UnmodelledNames}

\* C5: every field of the parsed text that the codec does not model is in the
\* serialized output with its name and all its value lines: as a section
\* "Name:<tab>line<newline><tab>line..." and as a field of the re-parsed output.
C5_UnmodelledFieldsKept ==
    specStep = "written" =>
        \A f \in UnmodelledFields(specText) :
            /\ serializeField(f) \in SeqToSet(splitIntoSections(specInput))
            /\ f \in SeqToSet(parseSpecOutput(specInput))

C5_Witness ==
    /\ specStep = "written"
    /\ Cardinality(UnmodelledFields(specText)) = 2
    /\ spec.description = <<<<"fix", "\n", "\n", "more">>>>
    /\ \E f \in UnmodelledFields(specText) : Len(f.value) = 2

----------------------------------------------------------------------------
(* TsUtils.ts: parseDate                                                   *)

WS == {" ", "\t"}

\* runs of decimal digits of the model, by length
Digits4 == {"2020"}
Digits2 == {"02", "15", "18", "48", "43"}
DigitRuns == Digits4 \cup Digits2 \cup {"45", "46", "7"}

parseInt(d) ==
    CASE d = "2020" -> 2020 [] d = "02" -> 2 [] d = "15" -> 15 [] d = "18" -> 18
      [] d = "48" -> 48 [] d = "43" -> 43 [] d = "45" -> 45 [] d = "46" -> 46
      [] d = "7" -> 7

\* /(\d{4})\/(\d{2})\/(\d{2})/ matches at position i
DateAt(s, i) ==
    /\ i + 4 <= Len(s)
    /\ s[i] \in Digits4 /\ s[i + 1] = "/" /\ s[i + 2] \in Digits2
    /\ s[i + 3] = "/" /\ s[i + 4] \in Digits2

\* (?: (\d{2}):(\d{2}):(\d{2}))? matches after the date at position i
TimeAt(s, i) ==
    /\ i + 10 <= Len(s)
    /\ s[i + 5] = " " /\ s[i + 6] \in Digits2 /\ s[i + 7] = ":"
    /\ s[i + 8] \in Digits2 /\ s[i + 9] = ":" /\ s[i + 10] \in Digits2

\* an argument that is undefined where a number is expected; ToNumber makes it NaN
NoNumber == <<>>

\* a Date whose time value is NaN
InvalidDate ==
    [valid |-> FALSE, year |-> 0, month |-> 0, day |-> 0,
     hours |-> 0, minutes |-> 0, seconds |-> 0]

\* new Date(year, month, day) in local time: the time of day is 0 when left out
NewDate3(year, month, day) ==
    [valid |-> TRUE, year |-> year, month |-> month, day |-> day,
     hours |-> 0, minutes |-> 0, seconds |-> 0]

\* new Date(year, month, day, hours, minutes, seconds) in local time, month from 0,
\* the last three given as <<n>> or as NoNumber: an argument that is passed is
\* converted with ToNumber even when it is undefined, and NaN makes the time value NaN
NewDate(year, month, day, hours, minutes, seconds) ==
    IF NoNumber \in {hours, minutes, seconds} THEN InvalidDate
    ELSE [valid |-> TRUE, year |-> year, month |-> month, day |-> day,
          hours |-> hours[1], minutes |-> minutes[1], seconds |-> seconds[1]]

\* an optional Date: <<>> (undefined) when there is no match
parseDate(dateString) ==
    LET t == Trim(dateString)
    IN  IF \E i \in 1..Len(t) : DateAt(t, i)
        THEN LET i == CHOOSE i \in 1..Len(t) :
                          DateAt(t, i) /\ \A j \in 1..(i - 1) : ~DateAt(t, j)
                 hasTime == TimeAt(t, i)
             IN  <<NewDate(parseInt(t[i]),
                           parseInt(t[i + 2]) - 1,
                           parseInt(t[i + 4]),
                           IF hasTime THEN <<parseInt(t[i + 6])>> ELSE NoNumber,
                           IF hasTime THEN <<parseInt(t[i + 8])>> ELSE NoNumber,
                           IF hasTime THEN <<parseInt(t[i + 10])>> ELSE NoNumber)>>
        ELSE <<>>

----------------------------------------------------------------------------
(* api/commands/changes.ts: the changelist-listing parser                  *)

\* the characters of the model whose text starts with / ends with "Change"
StartsWithChange(line) == line # <<>> /\ Head(line) \in {"Change", "Changes"}

\* (.+)@(\S+) can match from position j: k is the "@" that ends the user
UserAt(s, j, k) == k > j /\ k < Len(s) /\ s[k] = "@" /\ s[k + 1] \notin WS

\* \sby\s at position j, with a non-empty date before it and user@client after it
ByAt(s, i, j) ==
    /\ j > i + 6 /\ j + 2 < Len(s)
    /\ s[j] \in WS /\ s[j + 1] = "by" /\ s[j + 2] \in WS
    /\ \E k \in (j + 4)..Len(s) : UserAt(s, j + 3, k)

\* /Change\s(\d+)\son\s(.+)\sby\s(.+)@(\S+)(?:\s\*(.+)\*)?/ matches at position i
HeaderAt(s, i) ==
    /\ i + 5 <= Len(s)
    /\ s[i] = "Change" /\ s[i + 1] \in WS /\ s[i + 2] \in DigitRuns
    /\ s[i + 3] \in WS /\ s[i + 4] = "on" /\ s[i + 5] \in WS
    /\ \E j \in 1..Len(s) : ByAt(s, i, j)

Max(S) == CHOOSE x \in S : \A y \in S : y <= x
Min(S) == CHOOSE x \in S : \A y \in S : x <= y

\* an optional record is <<>> (undefined) or <<record>>
parseChangelistHeader(value) ==
    IF \E i \in 1..Len(value) : HeaderAt(value, i)
    THEN LET i  == Min({x \in 1..Len(value) : HeaderAt(value, x)})
             j  == Max({x \in 1..Len(value) : ByAt(value, i, x)})
             k  == Max({x \in 1..Len(value) : UserAt(value, j + 3, x)})
             e  == Min({x \in (k + 1)..Len(value) :
                           x = Len(value) \/ value[x + 1] \in WS})
             hasStatus ==
                 /\ e + 3 < Len(value) /\ value[e + 1] \in WS /\ value[e + 2] = "*"
                 /\ \E l \in (e + 4)..Len(value) : value[l] = "*"
             status == IF hasStatus
                       THEN SubSeq(value, e + 3,
                                   Max({l \in (e + 4)..Len(value) : value[l] = "*"}) - 1)
                       ELSE <<"undefined">>
         IN  <<[chnum     |-> <<value[i + 2]>>,
                date      |-> parseDate(SubSeq(value, i + 6, j - 1)),
                user      |-> SubSeq(value, j + 3, k - 1),
                client    |-> SubSeq(value, k + 1, e),
                isPending |-> status = <<"pending">>]>>
    ELSE <<>>

\* parseChangelist that does not stop at an unmatched header
parseChangelist_KeepsUnmatched(lines) ==
    LET parsed == parseChangelistHeader(IF lines = <<>> THEN <<"undefined">> ELSE Head(lines))
        descLines == IF lines = <<>> THEN <<>> ELSE Tail(lines)
        description == removeIndent(SelectSeq(descLines, LAMBDA line : StartsWith(line, <<"\t">>)))
    IN  IF parsed = <<>> THEN <<[description |-> description]>>
        ELSE <<[chnum |-> parsed[1].chnum, date |-> parsed[1].date, user |-> parsed[1].user,
                client |-> parsed[1].client, isPending |-> parsed[1].isPending,
                description |-> description]>>

\* parseChangelist that keeps only the description lines with text after the tab
parseChangelist_DropsBlank(lines) ==
    LET parsed == parseChangelistHeader(IF lines = <<>> THEN <<"undefined">> ELSE Head(lines))
        descLines == IF lines = <<>> THEN <<>> ELSE Tail(lines)
        description == removeIndent(SelectSeq(descLines,
                           LAMBDA line : StartsWith(line, <<"\t">>) /\ Len(line) > 1))
    IN  IF parsed = <<>> THEN <<>>
        ELSE <<[chnum |-> parsed[1].chnum, date |-> parsed[1].date, user |-> parsed[1].user,
                client |-> parsed[1].client, isPending |-> parsed[1].isPending,
                description |-> description]>>

parseChangelist(lines) ==
    LET parsed == parseChangelistHeader(IF lines = <<>> THEN <<"undefined">> ELSE Head(lines))
        descLines == IF lines = <<>> THEN <<>> ELSE Tail(lines)
        description == removeIndent(SelectSeq(descLines, LAMBDA line : StartsWith(line, <<"\t">>)))
    IN  IF parsed = <<>> THEN <<>>
        ELSE <<[chnum |-> parsed[1].chnum, date |-> parsed[1].date, user |-> parsed[1].user,
                client |-> parsed[1].client, isPending |-> parsed[1].isPending,
                description |-> description]>>

\* CommandUtils.ts sectionArrayBy: a section starts at every line that satisfies the
\* condition; the lines before the first such line form a section of their own
RECURSIVE sectionArrayBy(_, _, _)
sectionArrayBy(lines, Cond(_), sections) ==
    IF lines = <<>> THEN sections
    ELSE IF Cond(Head(lines)) \/ sections = <<>>
         THEN sectionArrayBy(Tail(lines), Cond, Append(sections, <<Head(lines)>>))
         ELSE sectionArrayBy(Tail(lines), Cond,
                             [sections EXCEPT ![Len(sections)] = Append(@, Head(lines))])

parseChangesOutput(output) ==
    LET lines   == splitIntoLines(output)
        changes == sectionArrayBy(lines, StartsWithChange, <<>>)
    IN  Concat(MapSeq(changes, parseChangelist))

----------------------------------------------------------------------------
(* Changes specification: "p4 changes -l" output is parsed                 *)

\* Change 45 on 2020/02/15 by super@matto 'a new changelist with a much lo'
Header45 ==
    <<"Change", " ", "45", " ", "on", " ", "2020", "/", "02", "/", "15", " ", "by", " ",
      "super", "@", "matto", " ", "'a new changelist with a much lo'">>

\* Change 46 on 2020/02/15 18:48:43 by zo gge@default *pending* 'desc'
Header46 ==
    <<"Change", " ", "46", " ", "on", " ", "2020", "/", "02", "/", "15", " ", "18", ":",
      "48", ":", "43", " ", "by", " ", "zo", " ", "gge", "@", "default", " ", "*",
      "pending", "*", " ", "'desc'">>

WellFormedHeaders == {Header45, Header46}

\* the lines of one record: header, blank line, indented description, blank line
RecordLines(header) ==
    <<header, <<>>, <<"\t", "first line">>, <<"\t">>, <<"\t", "last line">>, <<>>>>

GarbageLines ==
    {<<"garbage">>,
     <<"Change", " ", "garbage">>,
     <<"Changes", " ", "45", " ", "on", " ", "hold">>,
     <<"\t", "indented garbage">>,
     <<"...", " ", "depotFile", " ", "/", "/", "depot", "/", "a.txt">>}

InsertAt(lines, pos, line) ==
    SubSeq(lines, 1, pos) \o <<line>> \o SubSeq(lines, pos + 1, Len(lines))

RecordLists ==
    {RecordLines(h) : h \in WellFormedHeaders}
        \cup {RecordLines(h1) \o RecordLines(h2) : h1, h2 \in WellFormedHeaders}

ChangesOutputs ==
    {Join(lines, <<"\n">>) : lines \in RecordLists}
        \cup {Join(InsertAt(ls[1], ls[2], g), <<"\n">>) :
                 ls \in {x \in RecordLists \X (0..12) : x[2] <= Len(x[1])},
                 g \in GarbageLines}

ChangesInit ==
    /\ chOutput \in ChangesOutputs
    /\ chResult = <<>>
    /\ chStep = "output"
    /\ IdleBut("changes")

GetChangelists ==
    /\ chStep = "output"
    /\ chResult' = parseChangesOutput(chOutput)
    /\ chStep' = "parsed"
    /\ UNCHANGED chOutput
    /\ UNCHANGED notChVars

ChangesNext == GetChangelists

SpecChanges == ChangesInit /\ [][ChangesNext]_vars

\* the well-formed header lines of the text, in order
HeaderLinesOf(output) ==
    SelectSeq(splitIntoLines(output), LAMBDA line : line \in WellFormedHeaders)

\* C6: the parser returns exactly one record per well-formed header line, in order:
\* a garbage line, and a block whose header does not match, contribute no record.
C6_GarbageDropped ==
    chStep = "parsed" =>
        /\ Len(chResult) = Len(HeaderLinesOf(chOutput))
        /\ \A i \in 1..Len(chResult) : chResult[i].chnum = <<HeaderLinesOf(chOutput)[i][3]>>

C6_Witness ==
    /\ chStep = "parsed"
    /\ Len(chResult) = 1
    /\ Len(splitIntoLines(chOutput)) = 7
    /\ splitIntoLines(chOutput)[2] = <<"Change", " ", "garbage">>
    /\ chResult[1].chnum = <<"45">>

----------------------------------------------------------------------------
(* api/commands/changes.ts: fstat                                          *)

\* the characters of the model that \w does not match
NonWord == Reserved \cup {"\t", "\n", "...", "*", "'"}

\* /[.]{3} (\w+)[ ]*(.+)?/ matches at position i
ZTagAt(field, i) ==
    /\ i + 2 <= Len(field)
    /\ field[i] = "..." /\ field[i + 1] = " " /\ field[i + 2] \notin NonWord

RECURSIVE SkipSpaces(_)
SkipSpaces(s) == IF s # <<>> /\ Head(s) = " " THEN SkipSpaces(Tail(s)) ELSE s

\* parseZTagField that takes a field without a value to have no value
parseZTagField_NoMarker(field) ==
    IF \E i \in 1..Len(field) : ZTagAt(field, i)
    THEN LET i    == Min({x \in 1..Len(field) : ZTagAt(field, x)})
             rest == SkipSpaces(SubSeq(field, i + 3, Len(field)))
         IN  <<[k |-> <<field[i + 2]>>, v |-> StrV(rest)]>>
    ELSE <<>>

\* an optional one-field record: <<>> or <<[k, v]>>
parseZTagField(field) ==
    IF \E i \in 1..Len(field) : ZTagAt(field, i)
    THEN LET i    == Min({x \in 1..Len(field) : ZTagAt(field, x)})
             rest == SkipSpaces(SubSeq(field, i + 3, Len(field)))
         IN  <<[k |-> <<field[i + 2]>>,
                v |-> IF rest # <<>> THEN StrV(rest) ELSE StrV(<<"true">>)]>>
    ELSE <<>>

parseZTagBlock(block) == Concat(MapSeq(splitIntoLines(block), parseZTagField))

\* CommandUtils.ts mergeAll: the members of the later objects replace the earlier ones
mergeAll(first, rest) == Spread(first, rest)

K_depotFile == <<"depotFile">>

parseFstatSection(file) ==
    mergeAll(<<[k |-> K_depotFile, v |-> StrV(<<>>)]>>, parseZTagBlock(file))

parseFstatOutput(fstatOutput) ==
    MapSeq(splitIntoSections(Trim(fstatOutput)), parseFstatSection)

\* CommandUtils.ts splitIntoChunks: consecutive chunks of at most ChunkSize paths
ChunkSize == 2

NumChunks(arr) == (Len(arr) + ChunkSize - 1) \div ChunkSize

splitIntoChunks(arr) ==
    [c \in 1..NumChunks(arr) |->
        SubSeq(arr, (c - 1) * ChunkSize + 1,
               IF c * ChunkSize <= Len(arr) THEN c * ChunkSize ELSE Len(arr))]

\* what getFstatInfo returns once Promise.all has every chunk's output
getFstatInfo(outputs) == Concat(MapSeq(outputs, parseFstatOutput))

\* Array.prototype.find: <<>> (undefined) or <<the first element that satisfies Test>>
Find(arr, Test(_)) ==
    IF \E i \in 1..Len(arr) : Test(arr[i])
    THEN <<arr[Min({i \in 1..Len(arr) : Test(arr[i])})]>>
    ELSE <<>>

\* a mapping back by list position instead of by depot path
getFstatInfoMapped_ByPosition(depotPaths, outputs) ==
    LET all == getFstatInfo(outputs)
    IN  [i \in 1..Len(depotPaths) |-> IF i <= Len(all) THEN <<all[i]>> ELSE <<>>]

getFstatInfoMapped(depotPaths, outputs) ==
    LET all == getFstatInfo(outputs)
    IN  [i \in 1..Len(depotPaths) |->
            Find(all, LAMBDA fs : Get(fs, K_depotFile) = StrV(depotPaths[i]))]

----------------------------------------------------------------------------
(* Fstat specification: the chunks of one getFstatInfoMapped call complete *)
(* in any order, each listing the files it knows in the server's order     *)

MaxFstatPaths == 3

FstatFiles == {"a.txt", "b.txt", "c.txt"}

DepotPathOf(f) == <<"/", "/", "depot", "/", f>>

HeadRevOf(f) == CASE f = "a.txt" -> "1" [] f = "b.txt" -> "2" [] f = "c.txt" -> "3"

\* the z-tag block the server prints for a file
FstatBlock(f) ==
    <<"...", " ", "depotFile", " ">> \o DepotPathOf(f)
        \o <<"\n", "...", " ", "headRev", " ", HeadRevOf(f), "\n", "...", " ", "mapped", "\n">>

FstatText(files) == Join(MapSeq(files, FstatBlock), <<"\n">>)

\* the sequences without repetition of the elements of a set
Orderings(S) ==
    {q \in UNION {[1..n -> S] : n \in 0..Cardinality(S)} :
        \A i, j \in 1..Len(q) : i # j => q[i] # q[j]}

FstatInit ==
    /\ fsPaths \in UNION {[1..n -> FstatFiles] : n \in 1..MaxFstatPaths}
    /\ fsPending = 1..NumChunks(fsPaths)
    /\ fsOutputs = [c \in 1..NumChunks(fsPaths) |-> <<>>]
    /\ fsServed = [c \in 1..NumChunks(fsPaths) |-> <<>>]
    /\ fsResult = <<>>
    /\ fsStep = "running"
    /\ IdleBut("fstat")

\* fstatBasic resolves for one chunk: the server lists some of its files, in its order
FstatChunkCompletes ==
    /\ fsStep = "running"
    /\ \E c \in fsPending :
        \E listed \in Orderings(SeqToSet(splitIntoChunks(fsPaths)[c])) :
            /\ fsOutputs' = [fsOutputs EXCEPT ![c] = FstatText(listed)]
            /\ fsServed' = [fsServed EXCEPT ![c] = listed]
            /\ fsPending' = fsPending \ {c}
    /\ UNCHANGED <<fsPaths, fsResult, fsStep>>
    /\ UNCHANGED notFsVars

\* Promise.all resolves and getFstatInfoMapped returns
FstatMapped ==
    /\ fsStep = "running"
    /\ fsPending = {}
    /\ fsResult' = getFstatInfoMapped(MapSeq(fsPaths, DepotPathOf), fsOutputs)
    /\ fsStep' = "done"
    /\ UNCHANGED <<fsPaths, fsPending, fsOutputs, fsServed>>
    /\ UNCHANGED notFsVars

FstatNext == FstatChunkCompletes \/ FstatMapped

SpecFstat == FstatInit /\ [][FstatNext]_vars

ServedFiles == UNION {SeqToSet(fsServed[c]) : c \in DOMAIN fsServed}

\* C7: one entry per requested path, in request order; entry i is the record of
\* requested path i (its depotFile and headRev) when the server listed that file
\* in any chunk and at any position, and undefined when it listed it nowhere.
C7_MappedByDepotPath ==
    fsStep = "done" =>
        /\ Len(fsResult) = Len(fsPaths)
        /\ \A i \in 1..Len(fsPaths) :
            IF fsPaths[i] \in ServedFiles
            THEN /\ fsResult[i] # <<>>
                 /\ Get(fsResult[i][1], K_depotFile) = StrV(DepotPathOf(fsPaths[i]))
                 /\ Get(fsResult[i][1], <<"headRev">>) = StrV(<<HeadRevOf(fsPaths[i])>>)
            ELSE fsResult[i] = <<>>

\* a done call whose second chunk is the only one that listed anything, in an order
\* other than the request order
C7_Witness ==
    /\ fsStep = "done"
    /\ Len(fsPaths) = 3
    /\ fsServed[1] = <<fsPaths[2]>>
    /\ fsServed[2] = <<fsPaths[3]>>
    /\ fsPaths[1] # fsPaths[2] /\ fsPaths[1] # fsPaths[3]
    /\ fsResult[1] = <<>> /\ fsResult[2] # <<>> /\ fsResult[3] # <<>>

----------------------------------------------------------------------------
(* The command facade: how an operation's promise settles on what the      *)
(* executor called back with, [err, stdout, stderr]                        *)

Rejected(error) == [kind |-> "rejected", value |-> error]
Resolved(value) == [kind |-> "resolved", value |-> value]

\* CommandUtils.ts runPerforceCommand: a failed execution rejects with the error;
\* stderr text rejects with that text unless the caller said stderr is ok
runPerforceCommand(exec, stdErrIsOk) ==
    IF exec.err # <<>> THEN Rejected(StrV(exec.err))
    ELSE IF exec.stderr # <<>> /\ ~stdErrIsOk THEN Rejected(StrV(exec.stderr))
    ELSE Resolved(StrV(exec.stdout))

\* CommandUtils.ts makeSimpleCommand and the two tolerant variants of a command
makeSimpleCommand(exec) == runPerforceCommand(exec, FALSE)

ignoringStdErr(exec) == runPerforceCommand(exec, TRUE)

ignoringAndHidingStdErr(exec) == runPerforceCommand(exec, TRUE)

\* CommandUtils.ts asyncOuputHandler: the handler is applied to a resolved output
asyncOuputHandler(settled, Handler(_)) ==
    IF settled.kind = "resolved" THEN Resolved(Handler(settled.value.s)) ELSE settled

isTruthy(obj) == IF Truthy(obj) THEN True ELSE False

haveFileCmd(exec) == makeSimpleCommand(exec)

\* a presence check built on the command that rejects on stderr
haveFile_RejectsOnStdErr(exec) ==
    asyncOuputHandler(haveFileCmd(exec), LAMBDA out : isTruthy(StrV(out)))

haveFile(exec) ==
    asyncOuputHandler(ignoringAndHidingStdErr(exec), LAMBDA out : isTruthy(StrV(out)))

fstatBasic(exec) == ignoringStdErr(exec)

changes(exec) == makeSimpleCommand(exec)

getChangelists(exec) == asyncOuputHandler(changes(exec), parseChangesOutput)

----------------------------------------------------------------------------
(* Facade specification: one operation is called, the executor calls back,  *)
(* the operation settles                                                   *)

FacadeOps == {"haveFile", "fstatBasic", "getChangelists"}

\* the operations whose command is one of the stderr-ignoring variants
StdErrTolerantOps == {"haveFile", "fstatBasic"}

HaveLine ==
    <<"/", "/", "depot", "/", "a.txt", "#", "4", " ", "-", " ", "/", "home", "/", "a.txt">>

ExecErrors == {<<>>, <<"spawn p4 ENOENT">>}

ExecStdOuts == {<<>>, HaveLine, FstatText(<<"a.txt">>), Join(RecordLines(Header45), <<"\n">>)}

ExecStdErrs == {<<>>, <<"a.txt", " ", "-", " ", "file(s) not on client.">>,
                <<"Perforce password (P4PASSWD) invalid or unset.">>}

FacadeInit ==
    /\ fcOp \in FacadeOps
    /\ fcExec = <<>>
    /\ fcOutcome = <<>>
    /\ fcStep = "called"
    /\ IdleBut("facade")

\* the executor calls back with an error or with the tool's stdout and stderr
ExecutorReturns ==
    /\ fcStep = "called"
    /\ \E err \in ExecErrors, stdout \in ExecStdOuts, stderr \in ExecStdErrs :
        fcExec' = <<[err |-> err, stdout |-> stdout, stderr |-> stderr]>>
    /\ fcStep' = "executed"
    /\ UNCHANGED <<fcOp, fcOutcome>>
    /\ UNCHANGED notFcVars

HaveFile ==
    /\ fcStep = "executed" /\ fcOp = "haveFile"
    /\ fcOutcome' = <<haveFile(fcExec[1])>>
    /\ fcStep' = "settled"
    /\ UNCHANGED <<fcOp, fcExec>>
    /\ UNCHANGED notFcVars

FstatBasic ==
    /\ fcStep = "executed" /\ fcOp = "fstatBasic"
    /\ fcOutcome' = <<fstatBasic(fcExec[1])>>
    /\ fcStep' = "settled"
    /\ UNCHANGED <<fcOp, fcExec>>
    /\ UNCHANGED notFcVars

GetChangelistsFacade ==
    /\ fcStep = "executed" /\ fcOp = "getChangelists"
    /\ fcOutcome' = <<getChangelists(fcExec[1])>>
    /\ fcStep' = "settled"
    /\ UNCHANGED <<fcOp, fcExec>>
    /\ UNCHANGED notFcVars

FacadeNext == ExecutorReturns \/ HaveFile \/ FstatBasic \/ GetChangelistsFacade

SpecFacade == FacadeInit /\ [][FacadeNext]_vars

\* C8: a settled operation is rejected when the executor reported an error, and,
\* unless its command ignores stderr, when the tool wrote to stderr (the rejection
\* carries the stderr text); haveFile without an executor error resolves, to true
\* exactly when stdout is non-empty, so to false when there is only stderr text.
C8_RejectsUnlessTolerant ==
    fcStep = "settled" =>
        LET exec == fcExec[1]
            out  == fcOutcome[1]
        IN  /\ exec.err # <<>> => out.kind = "rejected"
            /\ (exec.err = <<>> /\ exec.stderr # <<>> /\ fcOp \notin StdErrTolerantOps)
                    => out = Rejected(StrV(exec.stderr))
            /\ (exec.err = <<>> /\ fcOp = "haveFile")
                    => /\ out.kind = "resolved"
                       /\ (out.value = True) <=> (exec.stdout # <<>>)
                       /\ (out.value = False) <=> (exec.stdout = <<>>)

\* haveFile settled on an execution that printed nothing but an absence message
C8_Witness ==
    /\ fcStep = "settled"
    /\ fcOp = "haveFile"
    /\ fcExec[1].err = <<>> /\ fcExec[1].stdout = <<>> /\ fcExec[1].stderr # <<>>
    /\ fcOutcome[1] = Resolved(False)

----------------------------------------------------------------------------
(* Parse specification: PerforceUri.parse is given an address string with  *)
(* an optional revision suffix, query and fragment                         *)

\* optional components are <<>> or <<text>>
ParseAuthorities == {<<>>, <<"depot">>}
ParsePaths       == {<<"/", "a", "/", "myFile">>, <<"/", "my", "/", "path">>}
ParseRevs        == {<<>>, <<<<"1">>>>, <<<<"2">>>>}
ParseQueries     == {<<>>, << <<"a", "=", "b">> >>,
                     << <<"command", "=", "print", "&", "p4Args", "=", "-q">> >>}
ParseFragments   == {<<>>, <<<<"2">>>>, <<<<"@", "=", "9">>>>}

\* scheme://authority/path#REV?query#REV2
ParseString(c) ==
    <<"perforce", ":">>
        \o (IF c.authority # <<>> THEN <<"/", "/">> \o c.authority ELSE <<>>)
        \o c.path
        \o (IF c.rev # <<>> THEN <<"#">> \o c.rev[1] ELSE <<>>)
        \o (IF c.query # <<>> THEN <<"?">> \o c.query[1] ELSE <<>>)
        \o (IF c.fragment # <<>> THEN <<"#">> \o c.fragment[1] ELSE <<>>)

ParseInit ==
    /\ paParts \in [authority : ParseAuthorities, path : ParsePaths, rev : ParseRevs,
                    query : ParseQueries, fragment : ParseFragments]
    /\ paInput = ParseString(paParts)
    /\ paResult = <<>>
    /\ paStep = "given"
    /\ IdleBut("parse")

Parse ==
    /\ paStep = "given"
    /\ paResult' = <<parse(paInput)>>
    /\ paStep' = "parsed"
    /\ UNCHANGED <<paParts, paInput>>
    /\ UNCHANGED notPaVars

ParseNext == Parse

SpecParse == ParseInit /\ [][ParseNext]_vars

OptText(o) == IF o = <<>> THEN <<>> ELSE o[1]

\* C12: a string path#REV followed by ?query and/or #REV2 parses to path "path#REV",
\* the query (empty when absent) and fragment REV2 (empty when absent); a string with
\* a single #REV and nothing after it, or with no #REV, parses as a standard URI
\* (path without suffix, fragment REV).
C12_ParseForms ==
    paStep = "parsed" =>
        LET c == paParts
            u == paResult[1]
        IN  /\ u.authority = c.authority
            /\ IF c.rev # <<>> /\ (c.query # <<>> \/ c.fragment # <<>>)
               THEN /\ u.path = c.path \o <<"#">> \o c.rev[1]
                    /\ u.query = OptText(c.query)
                    /\ u.fragment = OptText(c.fragment)
               ELSE IF c.rev # <<>>
               THEN /\ u.path = c.path
                    /\ u.query = <<>>
                    /\ u.fragment = c.rev[1]
               ELSE /\ u.path = c.path
                    /\ u.query = OptText(c.query)
                    /\ u.fragment = OptText(c.fragment)

\* perforce://depot/a/myFile#2?a=b#2 was parsed
C12_Witness ==
    /\ paStep = "parsed"
    /\ paInput = <<"perforce", ":", "/", "/", "depot", "/", "a", "/", "myFile", "#", "2",
                   "?", "a", "=", "b", "#", "2">>
    /\ paResult[1].path = <<"/", "a", "/", "myFile", "#", "2">>
    /\ paResult[1].query = <<"a", "=", "b">>
    /\ paResult[1].fragment = <<"2">>

\* the positions of the well-formed header lines among the lines of the text
HeaderPositions(lines) == {i \in 1..Len(lines) : lines[i] \in WellFormedHeaders}

\* the lines after position h up to the next line that starts with "Change"
LinesFollowing(lines, h) ==
    LET stops == {j \in (h + 1)..Len(lines) : StartsWithChange(lines[j])}
        last  == IF stops = {} THEN Len(lines) ELSE Min(stops) - 1
    IN  SubSeq(lines, h + 1, last)

\* the n-th smallest element of a set of numbers
RECURSIVE Nth(_, _)
Nth(S, n) == IF n = 1 THEN Min(S) ELSE Nth(S \ {Min(S)}, n - 1)

\* C14: the description of the i-th parsed changelist is the sequence of the lines
\* that follow its header and begin with a tab, each without that tab, in order; a
\* line holding only the tab is kept as the empty string.
C14_DescriptionLines ==
    chStep = "parsed" =>
        LET lines == splitIntoLines(chOutput)
        IN  \A i \in 1..Len(chResult) :
                LET following == LinesFollowing(lines, Nth(HeaderPositions(lines), i))
                    indented  == SelectSeq(following,
                                           LAMBDA l : l # <<>> /\ Head(l) = "\t")
                IN  /\ Len(chResult[i].description) = Len(indented)
                    /\ \A j \in 1..Len(indented) :
                           chResult[i].description[j] = Tail(indented[j])

\* two changelists were parsed, each with a blank line inside its description
C14_Witness ==
    /\ chStep = "parsed"
    /\ Len(chResult) = 2
    /\ \A i \in 1..2 :
           chResult[i].description = <<<<"first line">>, <<>>, <<"last line">>>>

----------------------------------------------------------------------------
(* Regular expressions of the line parsers: an anchored pattern ^...$ is a  *)
(* sequence of literal characters and repetitions of a character class     *)

Lit(c) == [t |-> "lit", c |-> c]

\* class*, class*? or class+, captured or not
Rep(class, min, greedy, cap) ==
    [t |-> "rep", class |-> class, min |-> min, greedy |-> greedy, cap |-> cap]

\* the decimal numbers of the model
DigitChars == DigitRuns \cup {"53", "54"}

InClass(c, class) ==
    CASE class = "any"      -> TRUE                 \* .
      [] class = "nonspace" -> c \notin WS          \* \S
      [] class = "digit"    -> c \in DigitChars     \* \d

\* the length of the longest prefix of s whose characters are all in the class
RECURSIVE RunLength(_, _)
RunLength(s, class) ==
    IF s # <<>> /\ InClass(Head(s), class) THEN 1 + RunLength(Tail(s), class) ELSE 0

\* RegExp.prototype.exec for an anchored pattern: <<>> (null) or <<captures>>; a
\* greedy repetition takes the longest run with which the rest matches, a lazy one
\* the shortest
RECURSIVE RegExpExec(_, _)
RegExpExec(pat, s) ==
    IF pat = <<>> THEN (IF s = <<>> THEN << <<>> >> ELSE <<>>)
    ELSE LET e == Head(pat)
         IN  IF e.t = "lit"
             THEN IF s # <<>> /\ Head(s) = e.c THEN RegExpExec(Tail(pat), Tail(s)) ELSE <<>>
             ELSE LET rest(n) == RegExpExec(Tail(pat), SubSeq(s, n + 1, Len(s)))
                      ns      == {n \in e.min..RunLength(s, e.class) : rest(n) # <<>>}
                      n       == IF e.greedy THEN Max(ns) ELSE Min(ns)
                  IN  IF ns = {} THEN <<>>
                      ELSE << (IF e.cap THEN <<SubSeq(s, 1, n)>> ELSE <<>>) \o rest(n)[1] >>

\* the literal characters of a piece of a pattern
Lits(chars) == [i \in 1..Len(chars) |-> Lit(chars[i])]

----------------------------------------------------------------------------
(* users.ts, client.ts, branch.ts, changes.ts: the line-oriented parsers   *)

\* /^(.*) <(.*)> \((.*)\) \S* (.*)$/
UsersPattern ==
    <<Rep("any", 0, TRUE, TRUE)>> \o Lits(<<" ", "<">>)
        \o <<Rep("any", 0, TRUE, TRUE)>> \o Lits(<<">", " ", "(">>)
        \o <<Rep("any", 0, TRUE, TRUE)>> \o Lits(<<")", " ">>)
        \o <<Rep("nonspace", 0, TRUE, FALSE)>> \o Lits(<<" ">>)
        \o <<Rep("any", 0, TRUE, TRUE)>>

\* an optional record is <<>> (undefined) or <<record>>
parseUsersLine(line) ==
    LET matches == RegExpExec(UsersPattern, line)
    IN  IF matches # <<>>
        THEN <<[user |-> matches[1][1], email |-> matches[1][2],
                fullName |-> matches[1][3], accessDate |-> matches[1][4]]>>
        ELSE <<>>

\* parseUsersOutput without the filter: a line that does not match leaves an entry
parseUsersOutput_KeepsNoise(output) ==
    MapSeq(splitIntoLines(output),
           LAMBDA line : IF parseUsersLine(line) # <<>> THEN parseUsersLine(line)[1]
                         ELSE [user |-> <<"undefined">>, email |-> <<>>,
                               fullName |-> <<>>, accessDate |-> <<>>])

parseUsersOutput(output) == Concat(MapSeq(splitIntoLines(output), parseUsersLine))

\* /^Client (\S*) (\S*) root (.*) '(.*)'$/
ClientPattern ==
    Lits(<<"Client", " ">>) \o <<Rep("nonspace", 0, TRUE, TRUE)>> \o Lits(<<" ">>)
        \o <<Rep("nonspace", 0, TRUE, TRUE)>> \o Lits(<<" ", "root", " ">>)
        \o <<Rep("any", 0, TRUE, TRUE)>> \o Lits(<<" ", "'">>)
        \o <<Rep("any", 0, TRUE, TRUE)>> \o Lits(<<"'">>)

parseClientLine(line) ==
    LET matches == RegExpExec(ClientPattern, line)
    IN  IF matches # <<>>
        THEN <<[client |-> matches[1][1], date |-> matches[1][2],
                root |-> matches[1][3], description |-> matches[1][4]]>>
        ELSE <<>>

parseClientsOutput(output) == Concat(MapSeq(splitIntoLines(output), parseClientLine))

\* /^Branch (\S*) (.*?) '(.*)'$/
BranchPattern ==
    Lits(<<"Branch", " ">>) \o <<Rep("nonspace", 0, TRUE, TRUE)>> \o Lits(<<" ">>)
        \o <<Rep("any", 0, FALSE, TRUE)>> \o Lits(<<" ", "'">>)
        \o <<Rep("any", 0, TRUE, TRUE)>> \o Lits(<<"'">>)

parseBranchLine(line) ==
    LET matches == RegExpExec(BranchPattern, line)
    IN  IF matches # <<>>
        THEN <<[branch |-> matches[1][1], date |-> matches[1][2],
                description |-> matches[1][3]]>>
        ELSE <<>>

parseBranchesOutput(output) == Concat(MapSeq(splitIntoLines(output), parseBranchLine))

\* /^(\S*) fixed by change (\d+) on (\S*) by (\S*?)@(\S*) \((.*?)\)$/
JobFixPattern ==
    <<Rep("nonspace", 0, TRUE, TRUE)>>
        \o Lits(<<" ", "fixed", " ", "by", " ", "change", " ">>)
        \o <<Rep("digit", 1, TRUE, TRUE)>> \o Lits(<<" ", "on", " ">>)
        \o <<Rep("nonspace", 0, TRUE, TRUE)>> \o Lits(<<" ", "by", " ">>)
        \o <<Rep("nonspace", 0, FALSE, TRUE)>> \o Lits(<<"@">>)
        \o <<Rep("nonspace", 0, TRUE, TRUE)>> \o Lits(<<" ", "(">>)
        \o <<Rep("any", 0, FALSE, TRUE)>> \o Lits(<<")">>)

parseJobFix(line) ==
    LET matches == RegExpExec(JobFixPattern, line)
    IN  IF matches # <<>>
        THEN <<[job |-> matches[1][1], chnum |-> matches[1][2], date |-> matches[1][3],
                user |-> matches[1][4], client |-> matches[1][5],
                status |-> matches[1][6]]>>
        ELSE <<>>

parseFixesOutuput(output) == Concat(MapSeq(splitIntoLines(output), parseJobFix))

----------------------------------------------------------------------------
(* Lines specification: the output of users, clients, branches or fixes is *)
(* parsed line by line                                                     *)

MaxLines == 3

Date(y, m, d) == <<y, "/", m, "/", d>>

\* the lines a command prints for its records, with the record each one stands for
UserLines ==
    {[text   |-> <<"Amanda.Snozzlefwitch", " ", "<", "am", "@", "snoz.lol", ">", " ",
                   "(", "Amanda", " ", "Snozzlefwitch", ")", " ", "accessed", " ">>
                     \o Date("2020", "05", "07"),
      record |-> [user |-> <<"Amanda.Snozzlefwitch">>,
                  email |-> <<"am", "@", "snoz.lol">>,
                  fullName |-> <<"Amanda", " ", "Snozzlefwitch">>,
                  accessDate |-> Date("2020", "05", "07")]],
     [text   |-> <<"zogge", " ", "<", "zo", "@", "gge", ">", " ", "(", "Zo", " ", "(",
                   "the", ")", " ", "Gge", ")", " ", "accessed", " ">>
                     \o Date("2020", "01", "02"),
      record |-> [user |-> <<"zogge">>, email |-> <<"zo", "@", "gge">>,
                  fullName |-> <<"Zo", " ", "(", "the", ")", " ", "Gge">>,
                  accessDate |-> Date("2020", "01", "02")]]}

ClientLines ==
    {[text   |-> <<"Client", " ", "my-client", " ">> \o Date("2020", "03", "10")
                     \o <<" ", "root", " ", "/", "home", "/", "me", " ", "'",
                          "Created", " ", "by", " ", "me.", " ", "'">>,
      record |-> [client |-> <<"my-client">>, date |-> Date("2020", "03", "10"),
                  root |-> <<"/", "home", "/", "me">>,
                  description |-> <<"Created", " ", "by", " ", "me.", " ">>]],
     [text   |-> <<"Client", " ", "win", " ">> \o Date("2020", "04", "01")
                     \o <<" ", "root", " ", "C", ":", "\\", "My", " ", "Work", " ", "'",
                          "'">>,
      record |-> [client |-> <<"win">>, date |-> Date("2020", "04", "01"),
                  root |-> <<"C", ":", "\\", "My", " ", "Work">>,
                  description |-> <<>>]]}

BranchLines ==
    {[text   |-> <<"Branch", " ", "br-project-x-dev1", " ">> \o Date("2020", "04", "25")
                     \o <<" ", "'", "Created", " ", "by", " ", "Amanda.Snozzlefwitch.",
                          " ", "'">>,
      record |-> [branch |-> <<"br-project-x-dev1">>, date |-> Date("2020", "04", "25"),
                  description |-> <<"Created", " ", "by", " ", "Amanda.Snozzlefwitch.",
                                    " ">>]],
     [text   |-> <<"Branch", " ", "rel", " ">> \o Date("2020", "05", "01")
                     \o <<" ", "'", "it", "'", "s", " ", "'", "here", "'", "'">>,
      record |-> [branch |-> <<"rel">>, date |-> Date("2020", "05", "01"),
                  description |-> <<"it", "'", "s", " ", "'", "here", "'">>]]}

FixLines ==
    {[text   |-> <<"job000001", " ", "fixed", " ", "by", " ", "change", " ", "53", " ",
                   "on", " ">> \o Date("2020", "04", "04")
                     \o <<" ", "by", " ", "zogge", "@", "default", " ", "(", "closed", ")">>,
      record |-> [job |-> <<"job000001">>, chnum |-> <<"53">>,
                  date |-> Date("2020", "04", "04"), user |-> <<"zogge">>,
                  client |-> <<"default">>, status |-> <<"closed">>]],
     [text   |-> <<"job000002", " ", "fixed", " ", "by", " ", "change", " ", "54", " ",
                   "on", " ">> \o Date("2020", "04", "05")
                     \o <<" ", "by", " ", "a", "@", "b", "@", "ws", " ", "(", "open", ")">>,
      record |-> [job |-> <<"job000002">>, chnum |-> <<"54">>,
                  date |-> Date("2020", "04", "05"), user |-> <<"a">>,
                  client |-> <<"b", "@", "ws">>, status |-> <<"open">>]]}

\* lines that are not records: empty lines, messages, near misses of the pattern
NoiseLines(kind) ==
    {<<>>, <<"No", " ", "such", " ", "user(s).">>}
        \cup CASE kind = "users" ->
                    {<<"bob", " ", "<", "b", "@", "x", ">", " ", "accessed", " ">>
                         \o Date("2020", "01", "02")}
               [] kind = "clients" ->
                    {<<"Client", " ", "my-client", " ">> \o Date("2020", "03", "10")
                         \o <<" ", "'", "no", " ", "root", "'">>}
               [] kind = "branches" ->
                    {<<"branch", " ", "rel", " ">> \o Date("2020", "05", "01")
                         \o <<" ", "'", "release", "'">>}
               [] kind = "fixes" ->
                    {<<"job000003", " ", "fixed", " ", "by", " ", "change", " ", "abc",
                       " ", "on", " ">> \o Date("2020", "04", "04")
                         \o <<" ", "by", " ", "zogge", "@", "default", " ", "(", "closed",
                              ")">>}

RecordLinesOf(kind) ==
    CASE kind = "users"    -> UserLines
      [] kind = "clients"  -> ClientLines
      [] kind = "branches" -> BranchLines
      [] kind = "fixes"    -> FixLines

LineKinds == {"users", "clients", "branches", "fixes"}

LineTexts(kind) == {l.text : l \in RecordLinesOf(kind)} \cup NoiseLines(kind)

LinesInit ==
    /\ lnKind \in LineKinds
    /\ lnLines \in UNION {[1..n -> LineTexts(lnKind)] : n \in 1..MaxLines}
    /\ lnOutput = Join(lnLines, <<"\n">>)
    /\ lnResult = <<>>
    /\ lnStep = "output"
    /\ IdleBut("lines")

LinesParsed(kind, result) ==
    /\ lnStep = "output" /\ lnKind = kind
    /\ lnResult' = result
    /\ lnStep' = "parsed"
    /\ UNCHANGED <<lnKind, lnLines, lnOutput>>
    /\ UNCHANGED notLnVars

Users == LinesParsed("users", parseUsersOutput(lnOutput))

Clients == LinesParsed("clients", parseClientsOutput(lnOutput))

Branches == LinesParsed("branches", parseBranchesOutput(lnOutput))

Fixes == LinesParsed("fixes", parseFixesOutuput(lnOutput))

LinesNext == Users \/ Clients \/ Branches \/ Fixes

SpecLines == LinesInit /\ [][LinesNext]_vars

\* the records of the record lines among the printed lines, in order
RecordsPrinted ==
    LET isRecord(text) == \E l \in RecordLinesOf(lnKind) : l.text = text
        recordOf(text) == (CHOOSE l \in RecordLinesOf(lnKind) : l.text = text).record
    IN  MapSeq(SelectSeq(lnLines, isRecord), recordOf)

\* C15: the users, clients, branches and fixes parsers return the record of every
\* printed line that is a record line, in the order printed, and nothing for the
\* other lines.
C15_LineParsers ==
    lnStep = "parsed" => lnResult = RecordsPrinted

\* noise before, between and after is dropped: a record line between two noise lines
C15_Witness ==
    /\ lnStep = "parsed"
    /\ Len(lnLines) = 3
    /\ lnLines[1] \in NoiseLines(lnKind) /\ lnLines[3] \in NoiseLines(lnKind)
    /\ lnLines[1] # <<>>
    /\ Len(lnResult) = 1
    /\ lnKind = "fixes"

\* C16: the line "Change 45 on 2020/02/15 by super@matto 'a new changelist with a
\* much lo'" parses to chnum "45", user "super", client "matto", isPending false and
\* the date 2020-02-15.
C16_HeaderExample ==
    (chStep = "parsed" /\ Head(splitIntoLines(chOutput)) = Header45) =>
        /\ chResult # <<>>
        /\ chResult[1].chnum = <<"45">>
        /\ chResult[1].user = <<"super">>
        /\ chResult[1].client = <<"matto">>
        /\ chResult[1].isPending = FALSE
        /\ chResult[1].date = <<NewDate3(2020, 1, 15)>>

\* what the code returns for that line: every field but the date is as stated, the
\* date is an invalid Date
C16_HeaderExampleInvalidDate ==
    (chStep = "parsed" /\ Head(splitIntoLines(chOutput)) = Header45) =>
        /\ chResult # <<>>
        /\ chResult[1].chnum = <<"45">>
        /\ chResult[1].user = <<"super">>
        /\ chResult[1].client = <<"matto">>
        /\ chResult[1].isPending = FALSE
        /\ chResult[1].date = <<InvalidDate>>

----------------------------------------------------------------------------
(* Z-tag specification: one block of "... field value" lines is parsed     *)

MaxZTagLines == 3

\* a line of a block: a field with <<value>>, a field with no value, or other text
ZTagEntries ==
    {[field |-> "depotFile", value |-> <<DepotPathOf("a.txt")>>],
     [field |-> "depotFile", value |-> <<DepotPathOf("b.txt")>>],
     [field |-> "action",    value |-> << <<"edit">> >>],
     [field |-> "headRev",   value |-> << <<"3">> >>],
     [field |-> "mapped",    value |-> <<>>],
     [field |-> "shelved",   value |-> <<>>],
     [field |-> "garbage",   value |-> << <<"not", " ", "a", " ", "field">> >>]}

ZTagLine(e) ==
    IF e.field = "garbage" THEN e.value[1]
    ELSE <<"...", " ", e.field>> \o (IF e.value # <<>> THEN <<" ">> \o e.value[1] ELSE <<>>)

ZTagInit ==
    /\ ztLines \in UNION {[1..n -> ZTagEntries] : n \in 1..MaxZTagLines}
    /\ ztOutput = Join(MapSeq(ztLines, ZTagLine), <<"\n">>) \o <<"\n">>
    /\ ztResult = <<>>
    /\ ztStep = "output"
    /\ IdleBut("ztag")

ParseFstatOutput ==
    /\ ztStep = "output"
    /\ ztResult' = parseFstatOutput(ztOutput)
    /\ ztStep' = "parsed"
    /\ UNCHANGED <<ztLines, ztOutput>>
    /\ UNCHANGED notZtVars

ZTagNext == ParseFstatOutput

SpecZTag == ZTagInit /\ [][ZTagNext]_vars

\* the fields of the printed block, and the last line that gives a field
ZTagFields == {ztLines[i].field : i \in 1..Len(ztLines)} \ {"garbage"}
LastLineOf(f) == ztLines[Max({i \in 1..Len(ztLines) : ztLines[i].field = f})]

\* C17: a block parses to a single record that has, for every field of the block, its
\* value, or "true" when the field has no value (depotFile is "" when the block has
\* none), and nothing else; "... depotFile //depot/a.txt", "... action edit",
\* "... mapped" gives {depotFile: "//depot/a.txt", action: "edit", mapped: "true"}.
C17_ZTagBlock ==
    ztStep = "parsed" =>
        /\ Len(ztResult) = 1
        /\ Keys(ztResult[1]) = {<<f>> : f \in ZTagFields \cup {"depotFile"}}
        /\ Len(ztResult[1]) = Cardinality(Keys(ztResult[1]))
        /\ \A f \in ZTagFields :
               Get(ztResult[1], <<f>>) =
                   IF LastLineOf(f).value = <<>> THEN StrV(<<"true">>)
                   ELSE StrV(LastLineOf(f).value[1])
        /\ "depotFile" \notin ZTagFields => Get(ztResult[1], K_depotFile) = StrV(<<>>)

\* the block of the example was parsed
C17_Witness ==
    /\ ztStep = "parsed"
    /\ [i \in 1..Len(ztLines) |-> ztLines[i].field] = <<"depotFile", "action", "mapped">>
    /\ ztLines[1].value = <<DepotPathOf("a.txt")>>
    /\ ztResult = << <<[k |-> <<"depotFile">>, v |-> StrV(DepotPathOf("a.txt"))],
                      [k |-> <<"action">>, v |-> StrV(<<"edit">>)],
                      [k |-> <<"mapped">>, v |-> StrV(<<"true">>)]>> >>

----------------------------------------------------------------------------
(* The command argument mapper (CommandUtils.ts flagMapper) and the flag   *)
(* declarations of changes.ts                                              *)

NumV(digits) == [t |-> "number", s |-> <<digits>>]

\* the arguments one (flag, key) pair gives for the value of the option
makeFlag(flag, value) ==
    CASE value.t \in {"string", "number"} -> << <<"-", flag>>, value.s >>
      [] value.t = "true"                  -> << <<"-", flag>> >>
      [] OTHER                             -> <<>>

\* the arguments of the (flag, key) pairs, in declared order
makeFlags(flagNames, options) ==
    Concat([i \in 1..Len(flagNames) |->
                makeFlag(flagNames[i][1], Get(options, <<flagNames[i][2]>>))])

\* the positional arguments: one per element of the array at the positional key
lastArgs(lastArg, options) ==
    IF Get(options, <<lastArg>>).t = "array" THEN Get(options, <<lastArg>>).s ELSE <<>>

flagMapper(flagNames, lastArg, fixed, fixedFirst, options) ==
    (IF fixedFirst THEN fixed ELSE <<>>)
        \o makeFlags(flagNames, options)
        \o lastArgs(lastArg, options)
        \o (IF fixedFirst THEN <<>> ELSE fixed)

\* the flag declaration of changes in another order
ChangesFlagNames_UserFirst ==
    <<<<"u", "user">>, <<"c", "client">>, <<"s", "status">>, <<"m", "maxChangelists">>>>

ChangesFlagNames ==
    <<<<"c", "client">>, <<"s", "status">>, <<"u", "user">>, <<"m", "maxChangelists">>>>

changesFlags(fixedFirst, options) ==
    flagMapper(ChangesFlagNames, "files", << <<"-", "l">> >>, fixedFirst, options)

FstatFlagNames ==
    <<<<"e", "chnum">>, <<"Or", "outputPendingRecord">>, <<"Rs", "limitToShelved">>>>

fstatFlags(fixedFirst, options) ==
    flagMapper(FstatFlagNames, "depotPaths", <<>>, fixedFirst, options)

----------------------------------------------------------------------------
(* Arguments specification: the arguments of changes and fstat are made    *)
(* from an options object                                                  *)

ArrayV(elements) == [t |-> "array", s |-> elements]

\* an options object: the keys that are given, in the order the caller wrote them
Options(keys, values) ==
    SelectSeq([i \in 1..Len(keys) |-> [k |-> <<keys[i]>>, v |-> values[i]]],
              LAMBDA e : e.v # Absent)

ChangesOptionSets ==
    {Options(<<"files", "user", "maxChangelists", "status", "client">>, <<f, u, m, st, c>>) :
        f  \in {Absent, ArrayV(<<DepotPathOf("a.txt"), DepotPathOf("b.txt")>>)},
        u  \in {Absent, StrV(<<"super">>)},
        m  \in {Absent, Undefined, NumV("200")},
        st \in {Absent, StrV(<<"pending">>)},
        c  \in {Absent, StrV(<<"matto">>)}}

FstatOptionSets ==
    {Options(<<"depotPaths", "limitToShelved", "outputPendingRecord", "chnum">>,
             <<d, ls, o, ch>>) :
        d  \in {ArrayV(<<DepotPathOf("a.txt")>>)},
        ls \in {Absent, True, False},
        o  \in {Absent, True, False},
        ch \in {Absent, StrV(<<"45">>)}}

ArgsInit ==
    /\ amCommand \in {"changes", "fstat"}
    /\ amOptions \in (IF amCommand = "changes" THEN ChangesOptionSets ELSE FstatOptionSets)
    /\ amFixedFirst \in BOOLEAN
    /\ amArgs = <<>>
    /\ amStep = "options"
    /\ IdleBut("args")

ChangesArgs ==
    /\ amStep = "options" /\ amCommand = "changes"
    /\ amArgs' = changesFlags(amFixedFirst, amOptions)
    /\ amStep' = "mapped"
    /\ UNCHANGED <<amCommand, amOptions, amFixedFirst>>
    /\ UNCHANGED notAmVars

FstatArgs ==
    /\ amStep = "options" /\ amCommand = "fstat"
    /\ amArgs' = fstatFlags(amFixedFirst, amOptions)
    /\ amStep' = "mapped"
    /\ UNCHANGED <<amCommand, amOptions, amFixedFirst>>
    /\ UNCHANGED notAmVars

ArgsNext == ChangesArgs \/ FstatArgs

SpecArgs == ArgsInit /\ [][ArgsNext]_vars

\* what an option gives: nothing when undefined or false, "-flag" when true,
\* "-flag" and the value when a string or a number
Emitted(flag, key) ==
    LET value == Get(amOptions, <<key>>)
    IN  IF value \in {Undefined, False} THEN <<>>
        ELSE IF value = True THEN << <<"-", flag>> >>
        ELSE << <<"-", flag>>, value.s >>

\* the arguments without the constant flags and the positional arguments
FlagArgs ==
    LET fixed == IF amCommand = "changes" THEN 1 ELSE 0
        files == Len(lastArgs(IF amCommand = "changes" THEN "files" ELSE "depotPaths",
                              amOptions))
        from  == IF amFixedFirst THEN fixed + 1 ELSE 1
        to    == IF amFixedFirst THEN Len(amArgs) - files ELSE Len(amArgs) - files - fixed
    IN  SubSeq(amArgs, from, to)

----------------------------------------------------------------------------
(* Revision suffix specification: withoutRev is applied to a path and a    *)
(* revision or label                                                       *)

RevBasePaths == {<<"/", "my", "/", "path">>, <<"/", "a", "/", "b.txt">>, <<"/", "x">>}

RevOrAtLabels == {<<"2">>, <<"3">>, <<"@", "=", "99">>, <<"@", "label">>}

RevInit ==
    /\ \E base \in RevBasePaths, suffix \in {Undefined} \cup {StrV(r) : r \in RevOrAtLabels} :
            wrPath = base \o revOrLabelAsSuffix(suffix)
    /\ wrRev \in {Undefined} \cup {StrV(r) : r \in RevOrAtLabels}
    /\ wrResult = <<>>
    /\ wrStep = "input"
    /\ IdleBut("rev")

WithoutRev ==
    /\ wrStep = "input"
    /\ wrResult' = withoutRev(wrPath, wrRev)
    /\ wrStep' = "returned"
    /\ UNCHANGED <<wrPath, wrRev>>
    /\ UNCHANGED notWrVars

RevNext == WithoutRev

SpecRev == RevInit /\ [][RevNext]_vars

EndsWith(s, suffix) ==
    Len(suffix) <= Len(s) /\ SubSeq(s, Len(s) - Len(suffix) + 1, Len(s)) = suffix

\* C20: withoutRev returns the path without its last part when that part is the
\* revision ("#" and the revision) or the label ("@...") it is given, and the path
\* as it is when the path ends in another value.
C20_WithoutRev ==
    wrStep = "returned" =>
        LET revStr == revOrLabelAsSuffix(wrRev)
        IN  wrResult = IF revStr # <<>> /\ EndsWith(wrPath, revStr)
                       THEN SubSeq(wrPath, 1, Len(wrPath) - Len(revStr))
                       ELSE wrPath

----------------------------------------------------------------------------
(* PerforceCommands: deleteOpenFile and submitSingle                       *)

\* a call of a server command of the api
Call(command, file, description) ==
    [command |-> command, file |-> file, description |-> description]

checkFileSelected(editor) == editor # <<>>

\* the same two calls, the delete first
p4revertAndDelete_DeleteFirst(fileUri) ==
    <<Call("delete", fileUri, <<>>), Call("revert", fileUri, <<>>)>>

\* the awaited calls of p4revertAndDelete, in order: p4revert, p4delete
p4revertAndDelete(fileUri) ==
    <<Call("revert", fileUri, <<>>), Call("delete", fileUri, <<>>)>>

\* p4revert and p4delete catch a failure of their command; submitSingle does not
CatchesError(command) == command \in {"revert", "delete"}

\* validateInput of the description box: a message, or nothing for a valid input
validateInput(input) ==
    IF Trim(input) = <<>> THEN <<"Description must not be empty">> ELSE <<>>

\* what showInputBox can resolve to: undefined when dismissed, or an input that
\* validateInput lets through
showInputBox(inputs) ==
    {Undefined} \cup {StrV(input) : input \in {i \in inputs : validateInput(i) = <<>>}}

\* submitSingle without the look at unsaved changes
submitSingleStart_IgnoresDirty(editor) ==
    IF editor = <<>> \/ editor[1].scheme # "file" THEN "error" ELSE "input"

\* submitSingle up to the description box: "error", "unsaved" or "input"
submitSingleStart(editor) ==
    IF editor = <<>> \/ editor[1].scheme # "file" THEN "error"
    ELSE IF editor[1].isDirty THEN "unsaved"
    ELSE "input"

----------------------------------------------------------------------------
(* Commands specification: the user shows documents in the editor and      *)
(* runs deleteOpenFile and submitSingle, the server answers                *)

MaxCommandRuns == 2

Document(file, scheme, isDirty) == [file |-> file, scheme |-> scheme, isDirty |-> isDirty]

Documents ==
    {Document("a.txt", "file", FALSE), Document("a.txt", "file", TRUE),
     Document("b.txt", "file", FALSE), Document("a.txt", "perforce", FALSE)}

DescriptionInputs == {<<>>, <<" ">>, <<"new", " ", "description">>}

NoOp == [name |-> "none", pc |-> "idle", file |-> "", calls |-> <<>>]

Running(name, pc, file, calls) == [name |-> name, pc |-> pc, file |-> file, calls |-> calls]

CommandsInit ==
    /\ pcEditor \in {<<>>} \cup {<<d>> : d \in Documents}
    /\ pcOp = NoOp
    /\ pcLog = <<>>
    /\ pcShown = <<>>
    /\ pcRefreshes = 0
    /\ pcRuns = 0
    /\ IdleBut("commands")

Issued(call)          == [ev |-> "issue", call |-> call]
Completed(call, isOk) == [ev |-> IF isOk THEN "ok" ELSE "error", call |-> call]

\* the user shows another document, or edits or saves the one shown; not while an
\* input box is open: it is dismissed when it loses the focus
ShowTextDocument ==
    /\ pcOp.pc # "input"
    /\ \E d \in Documents : pcEditor' = <<d>>
    /\ pcEditor' # pcEditor
    /\ UNCHANGED <<pcOp, pcLog, pcShown, pcRefreshes, pcRuns>>
    /\ UNCHANGED notPcVars

DeleteOpenFile ==
    /\ pcOp.name = "none" /\ pcRuns < MaxCommandRuns
    /\ pcRuns' = pcRuns + 1
    /\ IF ~checkFileSelected(pcEditor)
       THEN /\ pcShown' = Append(pcShown, "No file selected")
            /\ UNCHANGED <<pcOp, pcLog>>
       ELSE LET calls == p4revertAndDelete(pcEditor[1].file)
            IN  /\ pcOp' = Running("deleteOpenFile", "awaiting", pcEditor[1].file, calls)
                /\ pcLog' = Append(pcLog, Issued(Head(calls)))
                /\ UNCHANGED pcShown
    /\ UNCHANGED <<pcEditor, pcRefreshes>>
    /\ UNCHANGED notPcVars

SubmitSingle ==
    /\ pcOp.name = "none" /\ pcRuns < MaxCommandRuns
    /\ pcRuns' = pcRuns + 1
    /\ LET start == submitSingleStart(pcEditor)
       IN  CASE start = "error" ->
                    /\ pcShown' = Append(pcShown, "No open file to submit")
                    /\ UNCHANGED pcOp
             [] start = "unsaved" ->
                    /\ pcShown' = Append(pcShown, "unsaved changes")
                    /\ UNCHANGED pcOp
             [] OTHER ->
                    /\ pcOp' = Running("submitSingle", "input", pcEditor[1].file, <<>>)
                    /\ UNCHANGED pcShown
    /\ UNCHANGED <<pcEditor, pcLog, pcRefreshes>>
    /\ UNCHANGED notPcVars

\* the description box of submitSingle resolves
InputBoxReturns ==
    /\ pcOp.name = "submitSingle" /\ pcOp.pc = "input"
    /\ \E description \in showInputBox(DescriptionInputs) :
            IF ~Truthy(description)
            THEN /\ pcOp' = NoOp
                 /\ UNCHANGED pcLog
            ELSE LET call == Call("submit", pcOp.file, description.s)
                 IN  /\ pcOp' = Running("submitSingle", "awaiting", pcOp.file, <<call>>)
                     /\ pcLog' = Append(pcLog, Issued(call))
    /\ UNCHANGED <<pcEditor, pcShown, pcRefreshes, pcRuns>>
    /\ UNCHANGED notPcVars

\* the awaited server command resolves or rejects and the command goes on
CommandCompletes ==
    /\ pcOp.name # "none" /\ pcOp.pc = "awaiting"
    /\ \E isOk \in BOOLEAN :
        LET call  == Head(pcOp.calls)
            rest  == IF isOk \/ CatchesError(call.command) THEN Tail(pcOp.calls) ELSE <<>>
            ended == Append(pcLog, Completed(call, isOk))
        IN  /\ pcShown' = IF isOk THEN Append(pcShown, call.command) ELSE pcShown
            /\ pcRefreshes' = IF isOk THEN pcRefreshes + 1 ELSE pcRefreshes
            /\ IF rest = <<>>
               THEN /\ pcOp' = NoOp
                    /\ pcLog' = ended
               ELSE /\ pcOp' = Running(pcOp.name, "awaiting", pcOp.file, rest)
                    /\ pcLog' = Append(ended, Issued(Head(rest)))
    /\ UNCHANGED <<pcEditor, pcRuns>>
    /\ UNCHANGED notPcVars

CommandsNext ==
    ShowTextDocument \/ DeleteOpenFile \/ SubmitSingle \/ InputBoxReturns \/ CommandCompletes

SpecCommands == CommandsInit /\ [][CommandsNext]_vars

\* the events the step has added to the log
NewEvents == SubSeq(pcLog', Len(pcLog) + 1, Len(pcLog'))

\* C21: deleteOpenFile reverts and then deletes the file open in the editor: it starts
\* by issuing the revert of that file, and a delete is issued only right after the
\* revert of the same file has completed (resolved or rejected).
C21_RevertBeforeDelete ==
    /\ [](\A i \in 1..Len(pcLog) :
            (pcLog[i].ev = "issue" /\ pcLog[i].call.command = "delete") =>
                /\ i >= 3
                /\ pcLog[i - 1].ev \in {"ok", "error"}
                /\ pcLog[i - 1].call = Call("revert", pcLog[i].call.file, <<>>)
                /\ pcLog[i - 2] = Issued(pcLog[i - 1].call))
    /\ [][(pcOp.name = "none" /\ pcOp'.name = "deleteOpenFile") =>
            /\ pcEditor # <<>>
            /\ pcOp'.file = pcEditor[1].file
            /\ NewEvents = <<Issued(Call("revert", pcEditor[1].file, <<>>))>>]_vars
    /\ [][(pcOp.name = "deleteOpenFile" /\ NewEvents # <<>>) =>
            /\ NewEvents[1].call = Call("revert", pcOp.file, <<>>) => Len(NewEvents) = 2
            /\ Len(NewEvents) = 2 => NewEvents[2] = Issued(Call("delete", pcOp.file, <<>>))]_vars

\* the revert of a.txt was rejected and its delete was issued afterwards, while the
\* editor already shows another document
C21_Witness ==
    /\ Len(pcLog) = 3
    /\ pcLog[2] = Completed(Call("revert", "a.txt", <<>>), FALSE)
    /\ pcLog[3] = Issued(Call("delete", "a.txt", <<>>))
    /\ pcEditor = <<Document("b.txt", "file", FALSE)>>

SubmitIssued ==
    NewEvents # <<>> /\ NewEvents[Len(NewEvents)].ev = "issue"
        /\ NewEvents[Len(NewEvents)].call.command = "submit"

----------------------------------------------------------------------------
(* PerforceCommands: moving several files selected in the explorer         *)

\* a path: Path.join(dir, name), and Path.join(dir, name, "...") when wild
PathOf(dir, name, wild) == [dir |-> dir, name |-> name, wild |-> wild]

EditCall(from)     == [command |-> "edit", files |-> <<from>>]
MoveCall(from, to) == [command |-> "move", files |-> <<from, to>>]

\* a moveOne that opens for edit and leaves it at that
moveOne_EditOnly(isDirectory, file, newDir) ==
    <<EditCall(PathOf(file.dir, file.name, isDirectory))>>

\* the awaited calls of moveOne, in order: moveOneDir for a directory (with "..."
\* wildcards), moveOneFile otherwise
moveOne(isDirectory, file, newDir) ==
    <<EditCall(PathOf(file.dir, file.name, isDirectory)),
      MoveCall(PathOf(file.dir, file.name, isDirectory),
               PathOf(newDir, file.name, isDirectory))>>

\* files.find(file => dirname(file) !== dirname(files[0])) finds a file
differentDir(files) == \E i \in 1..Len(files) : files[i].dir # files[1].dir

----------------------------------------------------------------------------
(* Move specification: moveExplorerFiles with several files selected; the  *)
(* moves of the files run side by side                                     *)

MaxMoveFiles == 3

ExplorerFile(dir, name, isDirectory) ==
    [dir |-> dir, name |-> name, isDirectory |-> isDirectory]

ExplorerFiles ==
    {ExplorerFile("testFolder", "a.txt", FALSE), ExplorerFile("testFolder", "b.txt", FALSE),
     ExplorerFile("testFolder", "subFolder", TRUE), ExplorerFile("other", "c.txt", FALSE)}

Selections ==
    UNION {{sel \in [1..n -> ExplorerFiles] : \A i, j \in 1..n : i # j => sel[i] # sel[j]} :
            n \in 2..MaxMoveFiles}

MoveInit ==
    /\ mvFiles \in Selections
    /\ mvNewPath = <<>>
    /\ mvPc = [i \in 1..Len(mvFiles) |-> "idle"]
    /\ mvCalls = [i \in 1..Len(mvFiles) |-> <<>>]
    /\ mvOutcomes = [i \in 1..Len(mvFiles) |-> <<>>]
    /\ mvShown = <<>>
    /\ mvRefreshes = 0
    /\ mvStep = "selected"
    /\ IdleBut("move")

\* moveExplorerFiles with all.length > 1: moveMultipleToNewDir up to the input box
MoveExplorerFiles ==
    /\ mvStep = "selected"
    /\ IF differentDir(mvFiles)
       THEN /\ mvShown' = Append(mvShown, "all moved files must be within the same folder")
            /\ mvStep' = "done"
       ELSE /\ mvStep' = "input"
            /\ UNCHANGED mvShown
    /\ UNCHANGED <<mvFiles, mvNewPath, mvPc, mvCalls, mvOutcomes, mvRefreshes>>
    /\ UNCHANGED notMvVars

\* the input box resolves: with a location every moveOne is started and awaits isDir
NewPathEntered ==
    /\ mvStep = "input"
    /\ \E newPath \in {<<>>, <<"testFolder2">>} :
        /\ mvNewPath' = newPath
        /\ IF newPath = <<>>
           THEN /\ mvStep' = "done"
                /\ UNCHANGED mvPc
           ELSE /\ mvStep' = "moving"
                /\ mvPc' = [i \in 1..Len(mvFiles) |-> "stat"]
    /\ UNCHANGED <<mvFiles, mvCalls, mvOutcomes, mvShown, mvRefreshes>>
    /\ UNCHANGED notMvVars

\* isDir of one file resolves (false also when stat fails) and its edit is issued
StatCompletes(i) ==
    /\ mvStep = "moving" /\ mvPc[i] = "stat"
    /\ \E isDirectory \in {mvFiles[i].isDirectory, FALSE} :
        /\ mvCalls' = [mvCalls EXCEPT ![i] = <<Head(moveOne(isDirectory, mvFiles[i], mvNewPath[1]))>>]
        /\ mvPc' = [mvPc EXCEPT ![i] = IF isDirectory THEN "dir" ELSE "file"]
    /\ UNCHANGED <<mvFiles, mvNewPath, mvOutcomes, mvShown, mvRefreshes, mvStep>>
    /\ UNCHANGED notMvVars

\* the awaited command of one file resolves or rejects: the next call of its moveOne
\* is issued, or the error is shown and its moveOne ends
MoveCommandCompletes(i) ==
    /\ mvStep = "moving" /\ mvPc[i] \in {"dir", "file"}
    /\ \E isOk \in BOOLEAN :
        LET calls == moveOne(mvPc[i] = "dir", mvFiles[i], mvNewPath[1])
            next  == Len(mvCalls[i]) + 1
        IN  /\ mvOutcomes' = [mvOutcomes EXCEPT ![i] = Append(@, isOk)]
            /\ IF ~isOk
               THEN /\ mvShown' = Append(mvShown, "error")
                    /\ mvPc' = [mvPc EXCEPT ![i] = "ended"]
                    /\ UNCHANGED mvCalls
               ELSE IF next <= Len(calls)
               THEN /\ mvCalls' = [mvCalls EXCEPT ![i] = Append(@, calls[next])]
                    /\ UNCHANGED <<mvPc, mvShown>>
               ELSE /\ mvPc' = [mvPc EXCEPT ![i] = "ended"]
                    /\ UNCHANGED <<mvCalls, mvShown>>
    /\ UNCHANGED <<mvFiles, mvNewPath, mvRefreshes, mvStep>>
    /\ UNCHANGED notMvVars

\* Promise.all of the moves resolves; RefreshAll
AllMovesEnded ==
    /\ mvStep = "moving"
    /\ \A i \in 1..Len(mvFiles) : mvPc[i] = "ended"
    /\ mvRefreshes' = mvRefreshes + 1
    /\ mvStep' = "done"
    /\ UNCHANGED <<mvFiles, mvNewPath, mvPc, mvCalls, mvOutcomes, mvShown>>
    /\ UNCHANGED notMvVars

MoveNext ==
    \/ MoveExplorerFiles
    \/ NewPathEntered
    \/ \E i \in 1..Len(mvFiles) : StatCompletes(i)
    \/ \E i \in 1..Len(mvFiles) : MoveCommandCompletes(i)
    \/ AllMovesEnded

SpecMove == MoveInit /\ [][MoveNext]_vars

\* the commands of file i that were rejected
Rejections(i) == {k \in 1..Len(mvOutcomes[i]) : ~mvOutcomes[i][k]}

NumRejections ==
    Cardinality({ik \in (1..Len(mvFiles)) \X (1..2) : ik[2] \in Rejections(ik[1])})

\* C23: when the moves of several files of one folder have ended, every rejected
\* command was reported, and every selected file whose own edit was not rejected was
\* opened for edit and its move to the new folder was issued, whatever happened to the
\* commands of the other files.
C23_ErrorsDoNotStop ==
    (mvStep = "done" /\ mvNewPath # <<>>) =>
        /\ Len(mvShown) = NumRejections
        /\ mvRefreshes = 1
        /\ \A i \in 1..Len(mvFiles) :
            /\ Len(mvCalls[i]) >= 1
            /\ mvCalls[i][1].command = "edit"
            /\ mvCalls[i][1].files[1].name = mvFiles[i].name
            /\ 1 \notin Rejections(i) =>
                    /\ Len(mvCalls[i]) = 2
                    /\ mvCalls[i][2].command = "move"
                    /\ mvCalls[i][2].files[1] = mvCalls[i][1].files[1]
                    /\ mvCalls[i][2].files[2] =
                            PathOf(mvNewPath[1], mvFiles[i].name, mvCalls[i][1].files[1].wild)

\* the move of a.txt was rejected and reported, subFolder was opened for edit and
\* moved with wildcards
C23_Witness ==
    /\ mvStep = "done"
    /\ mvFiles = <<ExplorerFile("testFolder", "a.txt", FALSE),
                   ExplorerFile("testFolder", "subFolder", TRUE)>>
    /\ mvOutcomes = <<<<TRUE, FALSE>>, <<TRUE, TRUE>>>>
    /\ mvShown = <<"error">>
    /\ mvCalls[2] = moveOne(TRUE, mvFiles[2], "testFolder2")

----------------------------------------------------------------------------
(* scm/Resource.ts: the Model and its resource groups                      *)

\* a group made by sourceControl.createResourceGroup
ResourceGroup(chnum, label) ==
    [chnum |-> chnum, label |-> label, disposed |-> FALSE, resourceStates |-> <<>>]

\* the fields of a new Model; groups holds every group that was created, a group is
\* named by its place in it
NewModel ==
    [refreshInProgress      |-> FALSE,
     fullCleanOnNextRefresh |-> FALSE,
     defaultGroup           |-> <<>>,
     pendingGroups          |-> <<>>,
     openResourcesByPath    |-> {},
     knownHaveListByPath    |-> <<>>,
     conflictsByPath        |-> {},
     groups                 |-> <<>>]

\* Map.has, Map.get and Map.set on a map kept as its entries in insertion order
MapHas(map, key) == \E i \in 1..Len(map) : map[i].key = key
MapGet(map, key) == map[CHOOSE i \in 1..Len(map) : map[i].key = key].value
MapSet(map, key, value) ==
    IF MapHas(map, key)
    THEN [i \in 1..Len(map) |-> IF map[i].key = key THEN [key |-> key, value |-> value]
                                ELSE map[i]]
    ELSE Append(map, [key |-> key, value |-> value])

\* group.dispose() for the named groups
Dispose(groups, named) ==
    [g \in 1..Len(groups) |-> IF g \in named THEN [groups[g] EXCEPT !.disposed = TRUE]
                              ELSE groups[g]]

PendingGroupsOf(m) == {m.pendingGroups[i].value.group : i \in 1..Len(m.pendingGroups)}

\* get ResourceGroups: the default group, then the groups of the pending map
ResourceGroups(m) ==
    m.defaultGroup \o [i \in 1..Len(m.pendingGroups) |-> m.pendingGroups[i].value.group]

cleanState(m) ==
    [m EXCEPT !.openResourcesByPath = {}, !.conflictsByPath = {},
              !.knownHaveListByPath = <<>>]

cleanPendingGroups(m) ==
    [m EXCEPT !.groups = Dispose(m.groups, PendingGroupsOf(m)), !.pendingGroups = <<>>]

clean(m) ==
    cleanPendingGroups([cleanState(m) EXCEPT
        !.groups = Dispose(m.groups, {m.defaultGroup[i] : i \in 1..Len(m.defaultGroup)}),
        !.defaultGroup = <<>>])

shouldDisplayChangelist(config, resourceStates) ==
    IF config.hideEmptyChangelists /\ Len(resourceStates) < 1 THEN FALSE
    ELSE IF /\ config.hideNonWorkspaceFiles = "HIDE_CHANGELISTS"
            /\ Len(resourceStates) > 0
            /\ \A i \in 1..Len(resourceStates) : ~resourceStates[i].inWorkspace
         THEN FALSE
         ELSE TRUE

ResourcesOfChange(resources, chnum) == SelectSeq(resources, LAMBDA r : r.change = chnum)

\* changesWithResources of arrangeResourcesByChangelist
changesWithResources(config, changelists, resources) ==
    SelectSeq([i \in 1..Len(changelists) |->
                    [change    |-> changelists[i],
                     resources |-> ResourcesOfChange(resources, changelists[i].chnum)]],
              LAMBDA res : shouldDisplayChangelist(config, res.resources))

haveNewChangelists(m, arranged) ==
    \E i \in 1..Len(arranged) : ~MapHas(m.pendingGroups, arranged[i].change.chnum)

LabelOf(c) == <<"#", c.chnum, ":", " ", c.description>>

\* getOrCreateResourceGroup and group.resourceStates = resources for the arranged
\* changelists from the i-th on: the model and the groups, in order
RECURSIVE getOrCreateResourceGroups(_, _, _, _)
getOrCreateResourceGroups(m, arranged, i, made) ==
    IF i > Len(arranged) THEN [model |-> m, groups |-> made]
    ELSE LET c == arranged[i].change
         IN  IF MapHas(m.pendingGroups, c.chnum)
             THEN LET group == MapGet(m.pendingGroups, c.chnum).group
                  IN  getOrCreateResourceGroups(
                          [m EXCEPT !.groups[group].label = LabelOf(c),
                                    !.groups[group].resourceStates = arranged[i].resources],
                          arranged, i + 1, Append(made, group))
             ELSE getOrCreateResourceGroups(
                      [m EXCEPT !.groups =
                            Append(@, [ResourceGroup(c.chnum, LabelOf(c)) EXCEPT
                                            !.resourceStates = arranged[i].resources])],
                      arranged, i + 1, Append(made, Len(m.groups) + 1))

disposeUnusedGroups(m, usedGroups) ==
    [m EXCEPT !.groups = Dispose(m.groups, PendingGroupsOf(m) \ usedGroups)]

\* groups.forEach((group, i) => pendingGroups.set(changelists[i].chnum, ...))
RECURSIVE setPendingGroups(_, _, _, _)
setPendingGroups(pendingGroups, changelists, groups, i) ==
    IF i > Len(groups) THEN pendingGroups
    ELSE setPendingGroups(
            MapSet(pendingGroups, changelists[i].chnum,
                   [description |-> changelists[i].description, group |-> groups[i]]),
            changelists, groups, i + 1)

\* createResourceGroups from the default group on
createPendingGroups(m, config, changelists, resources) ==
    LET arranged == changesWithResources(config, changelists, resources)
        cleared  == IF haveNewChangelists(m, arranged) THEN cleanPendingGroups(m) ELSE m
        made     == getOrCreateResourceGroups(cleared, arranged, 1, <<>>)
        disposed == disposeUnusedGroups(made.model, {made.groups[i] : i \in 1..Len(made.groups)})
    IN  [disposed EXCEPT
            !.openResourcesByPath = @ \cup
                {resources[i].path : i \in {j \in 1..Len(resources) : ~resources[j].isShelved}},
            !.pendingGroups = setPendingGroups(@, changelists, made.groups, 1),
            !.fullCleanOnNextRefresh = FALSE]

createResourceGroups(m, config, changelists, resources) ==
    LET cleaned == IF ~m.fullCleanOnNextRefresh THEN cleanState(m) ELSE clean(m)
        default == ResourcesOfChange(resources, "default")
        withDefault ==
            IF cleaned.defaultGroup = <<>>
            THEN [cleaned EXCEPT
                    !.groups = Append(@, [ResourceGroup("default", <<"Default Changelist">>)
                                            EXCEPT !.resourceStates = default]),
                    !.defaultGroup = <<Len(cleaned.groups) + 1>>]
            ELSE [cleaned EXCEPT !.groups[cleaned.defaultGroup[1]].resourceStates = default]
    IN  createPendingGroups(withDefault, config, changelists, resources)

\* makeResourceForOpenFile for every fstat record: records outside the workspace
\* give no resource when files outside it are hidden
makeResourcesForOpenFiles(config, fstatInfos) ==
    SelectSeq(fstatInfos,
              LAMBDA info : config.hideNonWorkspaceFiles = "HIDE_FILES" => info.inWorkspace)

\* getChanges: changelists with the ignored prefix left out, in the configured order
getChanges(config, changelists) ==
    LET kept == SelectSeq(changelists,
                          LAMBDA c : config.ignoredChangelistPrefix = <<>>
                                        \/ c.description # config.ignoredChangelistPrefix[1])
    IN  IF config.changelistOrder = "ascending"
        THEN [i \in 1..Len(kept) |-> kept[Len(kept) + 1 - i]]
        ELSE kept

----------------------------------------------------------------------------
(* Model specification: the model is refreshed while the pending           *)
(* changelists and the opened files on the server change                   *)

MaxRefreshes == 2

Configs ==
    [hideNonWorkspaceFiles : {"SHOW_ALL", "HIDE_FILES", "HIDE_CHANGELISTS"},
     hideEmptyChangelists : BOOLEAN,
     ignoredChangelistPrefix : {<<>>},
     changelistOrder : {"descending"}]

ChangeInfo(chnum) == [chnum |-> chnum, description |-> "change " \o chnum]

\* the pending changelists of the client, newest first
ServerChangelists ==
    {<<>>, <<ChangeInfo("1")>>, <<ChangeInfo("2")>>, <<ChangeInfo("2"), ChangeInfo("1")>>}

OpenFile(chnum, inWorkspace) ==
    [change |-> chnum, path |-> (IF inWorkspace THEN "in" ELSE "out") \o chnum \o ".txt",
     inWorkspace |-> inWorkspace, isShelved |-> FALSE]

\* the opened files of a changelist: none, one in the workspace or one outside
OpenFilesOf(chnum) == {<<>>, <<OpenFile(chnum, TRUE)>>, <<OpenFile(chnum, FALSE)>>}

ServerOpenFiles(changelists) ==
    IF changelists = <<>> THEN {<<>>}
    ELSE IF Len(changelists) = 1 THEN OpenFilesOf(changelists[1].chnum)
    ELSE {of2 \o of1 : of2 \in OpenFilesOf(changelists[1].chnum),
                       of1 \in OpenFilesOf(changelists[2].chnum)}

\* no RefreshImpl is running; last is <<>> or holds the changelists of the last
\* refresh that got to createResourceGroups, clears counts these refreshes
NoRefresh == [pc |-> "idle", changelists |-> <<>>, last |-> <<>>, clears |-> 0]

Ended(refresh) == [refresh EXCEPT !.pc = "idle", !.changelists = <<>>]

ModelInit ==
    /\ mdConfig \in Configs
    /\ mdModel = NewModel
    /\ mdRefresh = NoRefresh
    /\ mdRefreshes = 0
    /\ mdServer = ServerChangelists
    /\ mdHaveCalls = <<>>
    /\ mdEvent = <<>>
    /\ IdleBut("model")

\* Refresh, RefreshPolitely(fullRefresh), RefreshImmediately: RefreshImpl up to its
\* login check
Refresh ==
    /\ mdRefresh.pc = "idle" /\ mdRefreshes < MaxRefreshes
    /\ \E fullRefresh \in BOOLEAN :
        mdModel' = [mdModel EXCEPT !.refreshInProgress = TRUE,
                                   !.fullCleanOnNextRefresh = @ \/ fullRefresh]
    /\ mdRefresh' = [mdRefresh EXCEPT !.pc = "login"]
    /\ mdRefreshes' = mdRefreshes + 1
    /\ UNCHANGED <<mdConfig, mdServer, mdHaveCalls, mdEvent>>
    /\ UNCHANGED notMdVars

\* isLoggedIn resolves, in RefreshImpl and then in updateStatus
LoginChecked ==
    /\ mdRefresh.pc \in {"login", "statusLogin"}
    /\ \E loggedin \in BOOLEAN :
        mdRefresh' = IF ~loggedin THEN Ended(mdRefresh)
                     ELSE [mdRefresh EXCEPT !.pc = IF @ = "login" THEN "statusLogin"
                                                   ELSE "changes"]
    /\ UNCHANGED <<mdConfig, mdModel, mdRefreshes, mdServer, mdHaveCalls, mdEvent>>
    /\ UNCHANGED notMdVars

\* getChanges resolves with the changelists or rejects
ChangesReturned ==
    /\ mdRefresh.pc = "changes"
    /\ \/ mdRefresh' = Ended(mdRefresh)
       \/ \E changelists \in mdServer :
            mdRefresh' = [mdRefresh EXCEPT !.pc = "resources",
                                           !.changelists = getChanges(mdConfig, changelists)]
    /\ UNCHANGED <<mdConfig, mdModel, mdRefreshes, mdServer, mdHaveCalls, mdEvent>>
    /\ UNCHANGED notMdVars

\* the shelved and opened resources resolve, or one of them rejects; updateStatus
\* ends with createResourceGroups
ResourcesReturned ==
    /\ mdRefresh.pc = "resources"
    /\ \/ /\ UNCHANGED mdModel
          /\ mdRefresh' = Ended(mdRefresh)
       \/ /\ \E fstatInfos \in ServerOpenFiles(mdRefresh.changelists) :
                mdModel' = [createResourceGroups(mdModel, mdConfig, mdRefresh.changelists,
                                                 makeResourcesForOpenFiles(mdConfig, fstatInfos))
                                EXCEPT !.refreshInProgress = FALSE]
          /\ mdRefresh' = [Ended(mdRefresh) EXCEPT !.last = <<mdRefresh.changelists>>,
                                                   !.clears = @ + 1]
    /\ UNCHANGED <<mdConfig, mdRefreshes, mdServer, mdHaveCalls, mdEvent>>
    /\ UNCHANGED notMdVars

ModelNext == Refresh \/ LoginChecked \/ ChangesReturned \/ ResourcesReturned

SpecModel == ModelInit /\ [][ModelNext]_vars

\* a refresh that was started goes on: every awaited command resolves or rejects
SpecModelFair ==
    /\ SpecModel
    /\ WF_vars(LoginChecked)
    /\ WF_vars(ChangesReturned)
    /\ WF_vars(ResourcesReturned)

\* C24: whenever the refresh-in-progress flag is set, it is cleared again later,
\* whatever the login check and the status commands of the refresh give.
C24_RefreshEnds == mdModel.refreshInProgress ~> ~mdModel.refreshInProgress

\* C25: every entry of the pending-group map is keyed by the change number of the
\* group it holds, and carries the description of that changelist.
C25_KeyedByChange ==
    \A i \in 1..Len(mdModel.pendingGroups) :
        LET entry == mdModel.pendingGroups[i]
        IN  /\ mdModel.groups[entry.value.group].chnum = entry.key
            /\ entry.value.description = ChangeInfo(entry.key).description

\* the groups the model exposes
ExposedGroups ==
    {ResourceGroups(mdModel)[i] : i \in 1..Len(ResourceGroups(mdModel))}

\* C26: once a refresh has got to its end, the resource groups the model exposes
\* hold no disposed group and no group for a changelist that the last refresh
\* did not get from the server.
C26_NoOldGroup ==
    (mdRefresh.last # <<>>) =>
        \A g \in ExposedGroups :
            /\ ~mdModel.groups[g].disposed
            /\ \/ mdModel.groups[g].chnum = "default"
               \/ \E i \in 1..Len(mdRefresh.last[1]) :
                        mdRefresh.last[1][i].chnum = mdModel.groups[g].chnum

----------------------------------------------------------------------------
(* scm/Resource.ts: haveFile and checkForConflicts of the Model            *)

\* a checkForConflicts that also checks while a refresh is in progress
checkForConflicts_DuringRefresh(m, event) ==
    IF event.status = "NOT_OPEN" /\ event.file \in m.openResourcesByPath
    THEN [m EXCEPT !.conflictsByPath = @ \cup {event.file}]
    ELSE m

checkForConflicts(m, event) ==
    IF m.refreshInProgress \/ event.file \in m.conflictsByPath THEN m
    ELSE IF event.status = "NOT_OPEN" /\ event.file \in m.openResourcesByPath
         THEN [m EXCEPT !.conflictsByPath = @ \cup {event.file}]
         ELSE m

\* a haveFile call: its path, how it was answered ("awaiting" the server, "resolved"
\* or "rejected" by it, or "cached"), the answer, and how many refreshes had cleared
\* the cache when it was made
HaveCall(path, status, result, clears) ==
    [path |-> path, status |-> status, result |-> result, clears |-> clears]

\* haveFile up to its await: the cached answer, or a call of p4 have
haveFile_Start(m, path, clears) ==
    IF MapHas(m.knownHaveListByPath, path)
    THEN HaveCall(path, "cached", <<MapGet(m.knownHaveListByPath, path)>>, clears)
    ELSE HaveCall(path, "awaiting", <<>>, clears)

----------------------------------------------------------------------------
(* Model files specifications: refreshes of a client with one pending      *)
(* changelist, with haveFile calls or with active file status events       *)

MaxHaveCalls == 2

HavePaths == {"in1.txt", "other.txt"}

ModelFilesInit ==
    /\ mdConfig \in {c \in Configs : c.hideNonWorkspaceFiles = "SHOW_ALL"
                                        /\ ~c.hideEmptyChangelists}
    /\ mdModel = NewModel
    /\ mdRefresh = NoRefresh
    /\ mdRefreshes = 0
    /\ mdServer = {<<ChangeInfo("1")>>}
    /\ mdHaveCalls = <<>>
    /\ mdEvent = <<>>
    /\ IdleBut("model")

\* Model.haveFile is called
ModelHaveFile ==
    /\ Len(mdHaveCalls) < MaxHaveCalls
    /\ \E path \in HavePaths :
        mdHaveCalls' = Append(mdHaveCalls, haveFile_Start(mdModel, path, mdRefresh.clears))
    /\ UNCHANGED <<mdConfig, mdModel, mdRefresh, mdRefreshes, mdServer, mdEvent>>
    /\ UNCHANGED notMdVars

\* p4 have of a call resolves, and the answer is stored, or rejects
HaveFileAnswered ==
    /\ \E i \in 1..Len(mdHaveCalls) :
        /\ mdHaveCalls[i].status = "awaiting"
        /\ \/ /\ mdHaveCalls' = [mdHaveCalls EXCEPT ![i].status = "rejected"]
              /\ UNCHANGED mdModel
           \/ \E ret \in BOOLEAN :
                /\ mdHaveCalls' = [mdHaveCalls EXCEPT ![i].status = "resolved",
                                                      ![i].result = <<ret>>]
                /\ mdModel' = [mdModel EXCEPT !.knownHaveListByPath =
                                    MapSet(@, mdHaveCalls[i].path, ret)]
    /\ UNCHANGED <<mdConfig, mdRefresh, mdRefreshes, mdServer, mdEvent>>
    /\ UNCHANGED notMdVars

\* Display fires onActiveFileStatusKnown
ActiveFileStatusKnown ==
    /\ \E file \in HavePaths, status \in {"OPEN", "NOT_OPEN", "NOT_IN_WORKSPACE"} :
        /\ mdEvent' = <<[file |-> file, status |-> status]>>
        /\ mdModel' = checkForConflicts(mdModel, mdEvent'[1])
    /\ mdEvent' # mdEvent \/ mdModel' # mdModel
    /\ UNCHANGED <<mdConfig, mdRefresh, mdRefreshes, mdServer, mdHaveCalls>>
    /\ UNCHANGED notMdVars

\* refreshes and haveFile calls
ModelHaveNext == ModelNext \/ ModelHaveFile \/ HaveFileAnswered

SpecModelHave == ModelFilesInit /\ [][ModelHaveNext]_vars

\* refreshes and active file status events
ModelFilesNext == ModelNext \/ ActiveFileStatusKnown

SpecModelFiles == ModelFilesInit /\ [][ModelFilesNext]_vars

\* C27: of the haveFile calls for one path after the same refresh, only the first
\* invokes the server; every later one returns the answer of the first without
\* invoking it, and no call returns an answer cached before the last refresh.
C27_HaveFileCached ==
    \A j \in 1..Len(mdHaveCalls) :
        LET earlier == {i \in 1..(j - 1) : /\ mdHaveCalls[i].path = mdHaveCalls[j].path
                                           /\ mdHaveCalls[i].clears = mdHaveCalls[j].clears}
        IN  IF earlier = {}
            THEN mdHaveCalls[j].status # "cached"
            ELSE /\ mdHaveCalls[j].status = "cached"
                 /\ mdHaveCalls[j].result = mdHaveCalls[Min(earlier)].result

-----------------------------------------------------------------------------
(* AnnotationProvider: the static map of providers by Uri, annotate and dispose *)

\* a vscode.Uri object: a JS Map tells keys apart by object identity, so two objects
\* of one file are two keys. id 0 is the Uri object of an open document, which is
\* the same object at every call; depot says that the Uri carries a revision or
\* names a depot path
UriObject(id, file, depot) == [id |-> id, file |-> file, depot |-> depot]

\* new AnnotationProvider(uri, ...): loadEditor has not yet shown the document
NewProvider(doc) == [doc |-> doc, editor |-> FALSE, disposed |-> FALSE]

\* dispose() of the named providers: each leaves the map only when the map holds
\* that very provider under its _doc
dispose(byUri, providers, named) ==
    LET Kept(entry) == ~(entry.value \in named /\ providers[entry.value].doc = entry.key)
    IN  [byUri     |-> SelectSeq(byUri, Kept),
         providers |-> [p \in 1..Len(providers) |->
                           IF p \in named THEN [providers[p] EXCEPT !.disposed = TRUE]
                           ELSE providers[p]]]

\* annotate up to its first await: the provider the map holds for this Uri object
\* is disposed
annotateStart(byUri, providers, docUri) ==
    IF MapHas(byUri, docUri) THEN dispose(byUri, providers, {MapGet(byUri, docUri)})
    ELSE [byUri |-> byUri, providers |-> providers]

\* the Uri the provider is made for: a new depot Uri when the given one has neither
\* revision nor depot path and the file has a history
providerUri(docUri, hasLog, uris) ==
    IF ~docUri.depot /\ hasLog THEN UriObject(uris + 1, docUri.file, TRUE) ELSE docUri

\* annotate after its awaits: a new provider is made and set in the map
annotateEnd(byUri, providers, docUri) ==
    [byUri     |-> MapSet(byUri, docUri, Len(providers) + 1),
     providers |-> Append(providers, NewProvider(docUri))]

MaxAnnotateCalls == 2

AnnotateFiles == {"a.txt", "b.txt"}

AnnotateInit ==
    /\ IdleBut("annotate")
    /\ anByUri = <<>>
    /\ anProviders = <<>>
    /\ anCalls = <<>>
    /\ anUris = 0

\* commands.annotate(file?): the Uri is parsed from the argument, a new object, or
\* is the Uri of the open document
Annotate ==
    /\ Len(anCalls) < MaxAnnotateCalls
    /\ \E file \in AnnotateFiles, parsed \in BOOLEAN, depot \in BOOLEAN :
        LET docUri  == UriObject(IF parsed THEN anUris + 1 ELSE 0, file, depot)
            started == annotateStart(anByUri, anProviders, docUri)
        IN  /\ anUris' = IF parsed THEN anUris + 1 ELSE anUris
            /\ anByUri' = started.byUri
            /\ anProviders' = started.providers
            /\ anCalls' = Append(anCalls, [uri |-> docUri, pc |-> "awaiting"])
    /\ UNCHANGED notAnVars

\* p4.annotate and p4.getFileHistory (and expandLogs) of one call have resolved
CommandsResolve(c) ==
    /\ anCalls[c].pc = "awaiting"
    /\ \E hasLog \in BOOLEAN :
        LET docUri == providerUri(anCalls[c].uri, hasLog, anUris)
            ended  == annotateEnd(anByUri, anProviders, docUri)
        IN  /\ anUris' = IF docUri = anCalls[c].uri THEN anUris ELSE anUris + 1
            /\ anByUri' = ended.byUri
            /\ anProviders' = ended.providers
    /\ anCalls' = [anCalls EXCEPT ![c].pc = "returned"]
    /\ UNCHANGED notAnVars

\* one of the commands of a call is rejected: annotate throws, no provider is made
CommandsReject(c) ==
    /\ anCalls[c].pc = "awaiting"
    /\ anCalls' = [anCalls EXCEPT ![c].pc = "rejected"]
    /\ UNCHANGED <<anByUri, anProviders, anUris>>
    /\ UNCHANGED notAnVars

\* loadEditor: showTextDocument(_p4Uri) has resolved and _editor is set
EditorLoaded(p) ==
    /\ ~anProviders[p].editor
    /\ anProviders' = [anProviders EXCEPT ![p].editor = TRUE]
    /\ UNCHANGED <<anByUri, anCalls, anUris>>
    /\ UNCHANGED notAnVars

\* the providers whose editor shows the document of this file and kind of Uri and
\* that still listen to events
ShownIn(file, depot) ==
    {p \in 1..Len(anProviders) :
        /\ anProviders[p].editor /\ ~anProviders[p].disposed
        /\ anProviders[p].doc.file = file /\ anProviders[p].doc.depot = depot}

\* onDidCloseTextDocument: checkStillOpen of every provider of the closed document
DocumentClosed ==
    /\ \E file \in AnnotateFiles, depot \in BOOLEAN :
        /\ ShownIn(file, depot) # {}
        /\ LET closed == dispose(anByUri, anProviders, ShownIn(file, depot))
           IN  /\ anByUri' = closed.byUri
               /\ anProviders' = closed.providers
    /\ UNCHANGED <<anCalls, anUris>>
    /\ UNCHANGED notAnVars

AnnotateNext ==
    \/ Annotate
    \/ \E c \in 1..Len(anCalls) : CommandsResolve(c)
    \/ \E c \in 1..Len(anCalls) : CommandsReject(c)
    \/ \E p \in 1..Len(anProviders) : EditorLoaded(p)
    \/ DocumentClosed

SpecAnnotate == AnnotateInit /\ [][AnnotateNext]_vars

LiveProviders == {p \in 1..Len(anProviders) : ~anProviders[p].disposed}

\* C29: at any time no two undisposed annotation providers are for the same file,
\* also when calls of annotate for one file overlap
C29_OneLiveProvider ==
    \A p, q \in LiveProviders : anProviders[p].doc.file = anProviders[q].doc.file => p = q

-----------------------------------------------------------------------------
(* QuickPickProvider: the history stack of quick picks, showQuickPick and reopen *)

\* an invocation of showQuickPick up to its first await. back: whether the Go Back
\* item of its menu performs an action; answer: the kind of item that was picked;
\* addToStack: as computed after the pick; popped: what its reopen() removed from
\* the stack
NewInvocation(type) ==
    [type |-> type, pc |-> "actions", back |-> FALSE, answer |-> "", addToStack |-> FALSE,
     popped |-> <<>>]

showQuickPick(invs, type) == Append(invs, NewInvocation(type))

\* actions.excludeFromHistory: set by the unshelveChange provider only
excludeFromHistory(type) == type = "unshelveChange"

addToRecentQuickPicks(recents, recentKey) ==
    LET Other(r) == r # recentKey
        others   == SelectSeq(recents, Other)
    IN  <<recentKey>> \o SubSeq(others, 1, Min({49, Len(others)}))

\* makeStackActions: Go Back performs an action when the stack has an entry
makeStackActions(stack) == stack # <<>>

\* Array.prototype.pop: the stack without its last entry, an empty stack stays empty
Pop(stack) == SubSeq(stack, 1, Len(stack) - 1)

openLastQuickPick(stack, invs) ==
    IF stack # <<>>
    THEN [stack |-> Pop(stack), invs |-> showQuickPick(invs, stack[Len(stack)].type),
          error |-> FALSE]
    ELSE [stack |-> stack, invs |-> invs, error |-> TRUE]

\* the reopen closure of invocation i
reopen(stack, invs, i) ==
    LET popped == IF invs[i].addToStack /\ stack # <<>> THEN <<stack[Len(stack)]>>
                  ELSE <<>>
    IN  [stack |-> IF invs[i].addToStack THEN Pop(stack) ELSE stack,
         invs  |-> showQuickPick([invs EXCEPT ![i].pc = "reopened", ![i].popped = popped],
                                 invs[i].type),
         error |-> FALSE]

\* a showQuickPick that adds the quick pick to the stack before it looks at whether
\* the picked item has an action
picked_PushesNoOp(stack, invs, i, item) ==
    LET type       == invs[i].type
        isNoOp     == item.kind = "noop" \/ (item.kind = "back" /\ ~invs[i].back)
        addToStack == item.kind # "back" /\ ~excludeFromHistory(type)
        pushed     == IF addToStack THEN Append(stack, [type |-> type, by |-> i]) ELSE stack
        marked     == [invs EXCEPT ![i].answer = item.kind, ![i].addToStack = addToStack,
                                   ![i].pc = "done"]
    IN  IF isNoOp
        THEN [stack |-> pushed,
              invs  |-> showQuickPick([invs EXCEPT ![i].answer = item.kind, ![i].pc = "done"],
                                      type),
              error |-> FALSE]
        ELSE CASE item.kind = "none"     -> [stack |-> pushed, invs |-> marked, error |-> FALSE]
               [] item.kind = "back"     -> openLastQuickPick(pushed, marked)
               [] item.kind = "clip"     -> reopen(pushed, marked, i)
               [] item.kind = "input"    ->
                    [stack |-> pushed, invs |-> [marked EXCEPT ![i].pc = "input"],
                     error |-> FALSE]
               [] item.kind = "navigate" ->
                    [stack |-> pushed, invs |-> showQuickPick(marked, item.target),
                     error |-> FALSE]

\* showQuickPick of invocation i from the answer of vscode.window.showQuickPick on.
\* The picked item is nothing (the menu was dismissed), an item without action, Go
\* Back, a clipboard item (reopen at once), the item asking for a branch in an input
\* box (reopen when nothing is entered), or an item that shows another quick pick
picked(stack, invs, i, item) ==
    LET type       == invs[i].type
        isNoOp     == item.kind = "noop" \/ (item.kind = "back" /\ ~invs[i].back)
        addToStack == item.kind # "back" /\ ~excludeFromHistory(type)
        pushed     == IF addToStack THEN Append(stack, [type |-> type, by |-> i]) ELSE stack
        marked     == [invs EXCEPT ![i].answer = item.kind, ![i].addToStack = addToStack,
                                   ![i].pc = "done"]
    IN  IF isNoOp
        THEN [stack |-> stack,
              invs  |-> showQuickPick([invs EXCEPT ![i].answer = item.kind, ![i].pc = "done"],
                                      type),
              error |-> FALSE]
        ELSE CASE item.kind = "none"     -> [stack |-> pushed, invs |-> marked, error |-> FALSE]
               [] item.kind = "back"     -> openLastQuickPick(pushed, marked)
               [] item.kind = "clip"     -> reopen(pushed, marked, i)
               [] item.kind = "input"    ->
                    [stack |-> pushed, invs |-> [marked EXCEPT ![i].pc = "input"],
                     error |-> FALSE]
               [] item.kind = "navigate" ->
                    [stack |-> pushed, invs |-> showQuickPick(marked, item.target),
                     error |-> FALSE]

\* the unshelve via branch mapping action after its input box has answered
branchEntered(stack, invs, i, entered) ==
    IF entered
    THEN [stack |-> stack,
          invs  |-> showQuickPick([invs EXCEPT ![i].pc = "done"], "unshelveChange"),
          error |-> FALSE]
    ELSE reopen(stack, invs, i)

MaxQuickPicks == 4

\* the quick picks that commands and items open
OpenedTypes == {"file", "change"}

Item(kind, target) == [kind |-> kind, target |-> target]

Items(type) ==
    {Item(kind, "") : kind \in {"none", "noop", "back", "clip"}}
        \cup {Item("navigate", target) : target \in OpenedTypes}
        \cup (IF type = "change" THEN {Item("input", "")} ELSE {})

QuickPickInit ==
    /\ IdleBut("quickpick")
    /\ qpStack = <<>>
    /\ qpRecents = <<>>
    /\ qpInv = <<>>
    /\ qpWidget = 0
    /\ qpError = FALSE

\* a command shows a quick pick
ShowQuickPick ==
    /\ Len(qpInv) < MaxQuickPicks
    /\ \E type \in OpenedTypes : qpInv' = showQuickPick(qpInv, type)
    /\ UNCHANGED <<qpStack, qpRecents, qpWidget, qpError>>
    /\ UNCHANGED notQpVars

\* provideActions has resolved: the menu is made and shown, which hides the quick
\* pick or input box that was visible
ActionsProvided(i) ==
    /\ qpInv[i].pc = "actions"
    /\ qpRecents' = IF excludeFromHistory(qpInv[i].type) THEN qpRecents
                    ELSE addToRecentQuickPicks(qpRecents, qpInv[i].type)
    /\ qpInv' = [qpInv EXCEPT ![i].pc = "picking", ![i].back = makeStackActions(qpStack)]
    /\ qpWidget' = i
    /\ UNCHANGED <<qpStack, qpError>>
    /\ UNCHANGED notQpVars

\* provideActions is rejected: showQuickPick throws
ActionsRejected(i) ==
    /\ qpInv[i].pc = "actions"
    /\ qpInv' = [qpInv EXCEPT ![i].pc = "done"]
    /\ UNCHANGED <<qpStack, qpRecents, qpWidget, qpError>>
    /\ UNCHANGED notQpVars

\* the invocations whose quick pick or input box was hidden by a later one and
\* that have not yet received its answer, undefined
Hidden == {i \in 1..Len(qpInv) : qpInv[i].pc \in {"picking", "input"} /\ qpWidget # i}

\* vscode.window.showQuickPick has answered: undefined for a hidden menu, and what
\* the user did with a visible one, which comes after the answers of the hidden ones
Picked(i) ==
    /\ qpInv[i].pc = "picking"
    /\ qpWidget = i => Hidden = {}
    /\ \E item \in Items(qpInv[i].type) :
        /\ item.kind # "none" => qpWidget = i
        /\ LET after == picked(qpStack, qpInv, i, item)
           IN  /\ Len(after.invs) <= MaxQuickPicks
               /\ qpStack' = after.stack
               /\ qpInv' = after.invs
               /\ qpError' = (qpError \/ after.error)
        /\ qpWidget' = IF item.kind = "input" THEN i
                       ELSE IF qpWidget = i THEN 0 ELSE qpWidget
    /\ UNCHANGED qpRecents
    /\ UNCHANGED notQpVars

\* vscode.window.showInputBox has answered: undefined for a hidden input box, and
\* what the user did with a visible one
InputReturned(i) ==
    /\ qpInv[i].pc = "input"
    /\ qpWidget = i => Hidden = {}
    /\ \E entered \in BOOLEAN :
        /\ entered => qpWidget = i
        /\ LET after == branchEntered(qpStack, qpInv, i, entered)
           IN  /\ Len(after.invs) <= MaxQuickPicks
               /\ qpStack' = after.stack
               /\ qpInv' = after.invs
    /\ qpWidget' = IF qpWidget = i THEN 0 ELSE qpWidget
    /\ UNCHANGED <<qpRecents, qpError>>
    /\ UNCHANGED notQpVars

\* openLastQuickPick is called from outside a quick pick
OpenLastQuickPick ==
    /\ LET after == openLastQuickPick(qpStack, qpInv)
       IN  /\ Len(after.invs) <= MaxQuickPicks
           /\ qpStack' = after.stack
           /\ qpInv' = after.invs
           /\ qpError' = (qpError \/ after.error)
    /\ UNCHANGED <<qpRecents, qpWidget>>
    /\ UNCHANGED notQpVars

QuickPickNext ==
    \/ ShowQuickPick
    \/ \E i \in 1..Len(qpInv) : ActionsProvided(i)
    \/ \E i \in 1..Len(qpInv) : ActionsRejected(i)
    \/ \E i \in 1..Len(qpInv) : Picked(i)
    \/ \E i \in 1..Len(qpInv) : InputReturned(i)
    \/ OpenLastQuickPick

SpecQuickPick == QuickPickInit /\ [][QuickPickNext]_vars

\* C30: the entry that the reopen() of an invocation of showQuickPick removed from
\* the history stack is the entry that this invocation pushed, whatever other quick
\* picks were shown or navigated in between
C30_ReopenPopsOwn ==
    \A i \in 1..Len(qpInv) :
        qpInv[i].pc = "reopened" =>
            \A k \in 1..Len(qpInv[i].popped) : qpInv[i].popped[k].by = i

\* a command shows a quick pick while no other invocation is under way
ShowQuickPickWhenIdle ==
    /\ \A i \in 1..Len(qpInv) : qpInv[i].pc \in {"done", "reopened"}
    /\ ShowQuickPick

QuickPickOneNext ==
    \/ ShowQuickPickWhenIdle
    \/ \E i \in 1..Len(qpInv) : ActionsProvided(i)
    \/ \E i \in 1..Len(qpInv) : ActionsRejected(i)
    \/ \E i \in 1..Len(qpInv) : Picked(i)
    \/ \E i \in 1..Len(qpInv) : InputReturned(i)
    \/ OpenLastQuickPick

\* quick picks opened one after the other; openLastQuickPick still comes at any time
SpecQuickPickOne == QuickPickInit /\ [][QuickPickOneNext]_vars

\* the invocations whose picked item had no action: an item without performAction,
\* or Go Back when the stack was empty as the menu was made
NoActionPicked ==
    {i \in 1..Len(qpInv) :
        \/ qpInv[i].answer = "noop"
        \/ qpInv[i].answer = "back" /\ ~qpInv[i].back}

\* C31: a pick of an item that has no action leaves the history stack as it is and
\* shows the quick pick of the same type again (a new invocation, awaiting its
\* actions); nothing else changes, so any number of such picks leaves the stack
\* unchanged
C31_NoOpKeepsStack ==
    [][\A i \in 1..Len(qpInv) :
        (qpInv[i].pc = "picking" /\ i \in NoActionPicked')
            => /\ qpStack' = qpStack
               /\ qpRecents' = qpRecents /\ qpError' = qpError
               /\ Len(qpInv') = Len(qpInv) + 1
               /\ qpInv'[Len(qpInv')] = NewInvocation(qpInv[i].type)
               /\ qpInv'[i].pc = "done" /\ ~qpInv'[i].addToStack]_vars

\* the same quick pick was shown again twice, each time after a pick without
\* action, while the stack holds an entry
C31_Witness ==
    /\ qpStack # <<>>
    /\ \E i, j \in NoActionPicked :
        /\ i < j /\ qpInv[i].type = qpInv[j].type
        /\ qpInv[j].pc = "done"
        /\ qpInv[Len(qpInv)].pc = "picking"

-----------------------------------------------------------------------------
(* SpecEditor: applying a spec from its document, and the prompt on a manual save *)

\* a text document by its file name, <item>.<suffix>
Doc(item, suffix) == [item |-> item, suffix |-> suffix]

specSuffix(type) == type \o "spec"

\* isValidSpecFilename: the file name ends in "." and the suffix of the editor
isValidSpecFilename(type, doc) == doc.suffix = specSuffix(type)

\* getResource: the stored map of spec files names a resource for the file
getResource(store, doc) == doc \in store

\* validateAndGetResource up to its await: throws for a file that is no spec of the
\* editor or has no stored resource; for a dirty document the next save is marked
\* as not to be asked about and the document is saved
validateAndGetResource(type, store, doc, isDirty, suppressNextSave) ==
    IF ~isValidSpecFilename(type, doc) \/ ~getResource(store, doc)
    THEN [throws |-> TRUE, suppressNextSave |-> suppressNextSave, saves |-> FALSE]
    ELSE IF isDirty
         THEN [throws |-> FALSE, suppressNextSave |-> <<doc>>, saves |-> TRUE]
         ELSE [throws |-> FALSE, suppressNextSave |-> suppressNextSave, saves |-> FALSE]

\* checkSavedDoc up to its await: the marked document uses up the mark and is not
\* asked about; otherwise a manual save of a spec with a stored resource is asked
\* about unless a prompt is still unanswered
checkSavedDoc(type, store, event, suppressNextSave, hasUnresolvedPrompt) ==
    IF suppressNextSave = <<event.doc>>
    THEN [suppressNextSave |-> <<>>, suppressed |-> TRUE, prompts |-> FALSE]
    ELSE [suppressNextSave |-> suppressNextSave, suppressed |-> FALSE,
          prompts |-> /\ ~hasUnresolvedPrompt
                      /\ event.reason = "Manual"
                      /\ isValidSpecFilename(type, event.doc)
                      /\ getResource(store, event.doc)]

MaxSaves == 2
MaxApplies == 2

\* the editor of changelist specs
EditorType == "change"

Docs == {Doc("1", "changespec"), Doc("2", "changespec"), Doc("3", "changespec"),
         Doc("1", "jobspec")}

\* the spec files that editSpec has made and stored a resource for
SpecStore == {Doc("1", "changespec"), Doc("2", "changespec")}

SpecEditorInit ==
    /\ IdleBut("speceditor")
    /\ seSuppressNextSave = <<>>
    /\ seHasUnresolvedPrompt = FALSE
    /\ sePrompt = <<>>
    /\ seDirty = {}
    /\ seSaves = <<>>
    /\ seApplies = <<>>
    /\ seError = FALSE

\* the saves of a document that have not yet ended
SavesUnderWay(doc) ==
    {s \in 1..Len(seSaves) : seSaves[s].doc = doc /\ seSaves[s].pc # "saved"}

NewSave(doc, reason, own) ==
    [doc |-> doc, reason |-> reason, own |-> own, pc |-> "event",
     suppressed |-> FALSE, prompted |-> FALSE]

\* the user changes the text of a document
EditDocument ==
    /\ \E doc \in Docs \ seDirty : seDirty' = seDirty \cup {doc}
    /\ UNCHANGED <<seSuppressNextSave, seHasUnresolvedPrompt, sePrompt, seSaves, seApplies,
                   seError>>
    /\ UNCHANGED notSeVars

\* the user saves a document, or the editor saves a dirty one after a delay
DocumentSaveStarts ==
    /\ Len(seSaves) < MaxSaves
    /\ \E doc \in Docs, reason \in {"Manual", "AfterDelay"} :
        /\ reason = "AfterDelay" => doc \in seDirty
        /\ SavesUnderWay(doc) = {}
        /\ seSaves' = Append(seSaves, NewSave(doc, reason, FALSE))
    /\ UNCHANGED <<seSuppressNextSave, seHasUnresolvedPrompt, sePrompt, seDirty, seApplies,
                   seError>>
    /\ UNCHANGED notSeVars

\* inputSpec(doc) up to the await of doc.save(): a save of the document that is
\* under way is joined, a new one is a manual save with its own will-save event
StartInputSpec(doc) ==
    LET started == validateAndGetResource(EditorType, SpecStore, doc, doc \in seDirty,
                                          seSuppressNextSave)
        joins   == SavesUnderWay(doc) # {}
        save    == IF ~started.saves THEN 0
                   ELSE IF joins THEN Max(SavesUnderWay(doc)) ELSE Len(seSaves) + 1
    IN  /\ Len(seApplies) < MaxApplies
        /\ (started.saves /\ ~joins) => Len(seSaves) < MaxSaves
        /\ seSuppressNextSave' = started.suppressNextSave
        /\ seSaves' = IF started.saves /\ ~joins
                      THEN Append(seSaves, NewSave(doc, "Manual", TRUE))
                      ELSE seSaves
        /\ seError' = (seError \/ started.throws)
        /\ seApplies' = Append(seApplies,
                               [doc |-> doc, save |-> save,
                                pc  |-> IF started.throws THEN "failed"
                                        ELSE IF started.saves THEN "saving"
                                        ELSE "uploading"])

\* the apply spec command on a document
InputSpec ==
    /\ \E doc \in Docs : StartInputSpec(doc)
    /\ UNCHANGED <<seHasUnresolvedPrompt, sePrompt, seDirty>>
    /\ UNCHANGED notSeVars

\* onWillSaveTextDocument: the events come in the order of the saves
WillSaveTextDocument ==
    /\ \E s \in 1..Len(seSaves) :
        /\ seSaves[s].pc = "event"
        /\ \A earlier \in 1..(s - 1) : seSaves[earlier].pc # "event"
        /\ LET checked == checkSavedDoc(EditorType, SpecStore, seSaves[s],
                                        seSuppressNextSave, seHasUnresolvedPrompt)
           IN  /\ seSuppressNextSave' = checked.suppressNextSave
               /\ seHasUnresolvedPrompt' = (seHasUnresolvedPrompt \/ checked.prompts)
               /\ sePrompt' = IF checked.prompts THEN <<seSaves[s].doc>> ELSE sePrompt
               /\ seSaves' = [seSaves EXCEPT ![s].pc = "handled",
                                             ![s].suppressed = checked.suppressed,
                                             ![s].prompted = checked.prompts]
    /\ UNCHANGED <<seDirty, seApplies, seError>>
    /\ UNCHANGED notSeVars

\* a save has ended: the document is clean, and the calls of inputSpec that awaited
\* it go on to upload the text
DocumentSaved ==
    /\ \E s \in 1..Len(seSaves) :
        /\ seSaves[s].pc = "handled"
        /\ seSaves' = [seSaves EXCEPT ![s].pc = "saved"]
        /\ seDirty' = seDirty \ {seSaves[s].doc}
        /\ seApplies' = [a \in 1..Len(seApplies) |->
                            IF seApplies[a].pc = "saving" /\ seApplies[a].save = s
                            THEN [seApplies[a] EXCEPT !.pc = "uploading"]
                            ELSE seApplies[a]]
    /\ UNCHANGED <<seSuppressNextSave, seHasUnresolvedPrompt, sePrompt, seError>>
    /\ UNCHANGED notSeVars

\* inputSpecText has resolved, for an item that keeps its name, or is rejected and
\* the error is shown
SpecUploaded ==
    /\ \E a \in 1..Len(seApplies), rejected \in BOOLEAN :
        /\ seApplies[a].pc = "uploading"
        /\ seApplies' = [seApplies EXCEPT ![a].pc = IF rejected THEN "failed" ELSE "done"]
        /\ seError' = (seError \/ rejected)
    /\ UNCHANGED <<seSuppressNextSave, seHasUnresolvedPrompt, sePrompt, seDirty, seSaves>>
    /\ UNCHANGED notSeVars

\* the prompt is answered with "Apply now" or is closed
PromptAnswered ==
    /\ sePrompt # <<>>
    /\ seHasUnresolvedPrompt' = FALSE
    /\ sePrompt' = <<>>
    /\ \E applyNow \in BOOLEAN :
        IF applyNow THEN StartInputSpec(sePrompt[1])
        ELSE UNCHANGED <<seSuppressNextSave, seSaves, seApplies, seError>>
    /\ UNCHANGED seDirty
    /\ UNCHANGED notSeVars

SpecEditorNext ==
    \/ EditDocument
    \/ DocumentSaveStarts
    \/ InputSpec
    \/ WillSaveTextDocument
    \/ DocumentSaved
    \/ SpecUploaded
    \/ PromptAnswered

SpecSpecEditor == SpecEditorInit /\ [][SpecEditorNext]_vars

\* C32: the save that applying a spec from a dirty document performs does not
\* prompt the user to apply the spec
C32_ApplySaveNotPrompted ==
    \A s \in 1..Len(seSaves) : seSaves[s].own => ~seSaves[s].prompted

====
